---------------------------- MODULE Spec2Model ----------------------------
(***************************************************************************)
(* Advanced Timer V2 firmware (src/src/main.cpp): the card table, the      *)
(* per-family card evaluators, the scan engine with its run modes, the     *)
(* kernel command queue, the shared runtime snapshot and the configuration *)
(* commit pipeline with its history slots.                                 *)
(*                                                                         *)
(* Time is in milliseconds.  Enumerations are modelled by the strings of   *)
(* their enumerator names.                                                 *)
(***************************************************************************)
EXTENDS Integers, Sequences, FiniteSets, TLC

(***************************************************************************)
(* Program constants.                                                      *)
(***************************************************************************)
NUM_DI == 4
NUM_DO == 4
NUM_AI == 2
NUM_SIO == 4
TOTAL_CARDS == NUM_DI + NUM_DO + NUM_AI + NUM_SIO
DI_START == 0
DO_START == DI_START + NUM_DI
AI_START == DO_START + NUM_DO
SIO_START == AI_START + NUM_AI
NO_PIN == 255
QUEUE_CAPACITY == 16
SLOW_SCAN_INTERVAL_MS == 250
kDefaultScanIntervalMs == 500
kMinScanIntervalMs == 10
kMaxScanIntervalMs == 1000

CardIds == 0 .. (TOTAL_CARDS - 1)

DI_Pins == <<13, 12, 14, 27>>
DO_Pins == <<26, 25, 33, 32>>
AI_Pins == <<35, 34>>
SIO_Pins == <<255, 255, 255, 255>>

(***************************************************************************)
(* Bounds of the model.                                                    *)
(***************************************************************************)
\* millis() when the two tasks start; the clock then advances in steps of
\* TickMs up to MaxNow
BootMs == 10
TickMs == 10
MaxNow == 60
\* commands submitted over a run
MaxCmds == 1
\* commit / restore requests over a run
MaxCommits == 1
\* commit / restore requests over a run of the commit pipeline on its own
CommitRuns == 2
\* the coarse clock: steps of StallMs in which the engine task gets no
\* processor time, at most MaxStalls of them over a run
MaxStalls == 2
StallMs == 500
\* the debounce time of the debounced digital inputs
DebounceMs == 30
\* force commands submitted over a run of the digital inputs
MaxForces == 1
\* debug commands (run mode, step, breakpoint) submitted over a run
MaxDebugCmds == 3
\* runtime settings updates submitted over a run
MaxSettings == 2
\* the qualified edges a digital input card is followed through
MaxEdges == 2
\* the time before the wrap-around of millis() at which a run across it begins
WrapLeadMs == 40
\* commands submitted over a run of the command queue
MaxQueueCmds == 2
\* commands submitted over a run that fills the command queue
MaxBusyCmds == 18
\* the model's machine word: TLC integers are 32-bit signed, so unsigned
\* arithmetic is taken modulo Wrap32; every modelled quantity stays below it
Wrap32 == 1073741824

U32Sub(a, b) == (a - b) % Wrap32
U32Add(a, b) == (a + b) % Wrap32

(***************************************************************************)
(* Card families by id range.                                              *)
(***************************************************************************)
isDigitalInputCard(id) == id < DO_START
isDigitalOutputCard(id) == id >= DO_START /\ id < AI_START
isAnalogInputCard(id) == id >= AI_START /\ id < SIO_START
isSoftIOCard(id) == id >= SIO_START /\ id < TOTAL_CARDS
isInputCard(id) == isDigitalInputCard(id) \/ isAnalogInputCard(id)

(***************************************************************************)
(* initializeCardSafeDefaults: the factory card for a global id.           *)
(***************************************************************************)
BaseCard(globalId) ==
  [ id |-> globalId, type |-> "DigitalInput", index |-> 0, hwPin |-> NO_PIN,
    invert |-> FALSE, setting1 |-> 0, setting2 |-> 0, setting3 |-> 0,
    logicalState |-> FALSE, physicalState |-> FALSE, triggerFlag |-> FALSE,
    currentValue |-> 0, startOnMs |-> 0, startOffMs |-> 0, repeatCounter |-> 0,
    mode |-> "Mode_None", state |-> "State_None",
    setA_ID |-> globalId, setA_Operator |-> "Op_AlwaysFalse", setA_Threshold |-> 0,
    setB_ID |-> globalId, setB_Operator |-> "Op_AlwaysFalse", setB_Threshold |-> 0,
    setCombine |-> "Combine_None",
    resetA_ID |-> globalId, resetA_Operator |-> "Op_AlwaysFalse", resetA_Threshold |-> 0,
    resetB_ID |-> globalId, resetB_Operator |-> "Op_AlwaysFalse", resetB_Threshold |-> 0,
    resetCombine |-> "Combine_None" ]

initializeCardSafeDefaults(globalId) ==
  IF globalId < DO_START THEN
    [ BaseCard(globalId) EXCEPT
        !.type = "DigitalInput", !.index = globalId - DI_START,
        !.hwPin = DI_Pins[globalId - DI_START + 1],
        !.setting1 = 50, !.mode = "Mode_DI_Rising", !.state = "State_DI_Idle" ]
  ELSE IF globalId < AI_START THEN
    [ BaseCard(globalId) EXCEPT
        !.type = "DigitalOutput", !.index = globalId - DO_START,
        !.hwPin = DO_Pins[globalId - DO_START + 1],
        !.setting1 = 1000, !.setting2 = 1000, !.setting3 = 1,
        !.mode = "Mode_DO_Normal", !.state = "State_DO_Idle" ]
  ELSE IF globalId < SIO_START THEN
    [ BaseCard(globalId) EXCEPT
        !.type = "AnalogInput", !.index = globalId - AI_START,
        !.hwPin = AI_Pins[globalId - AI_START + 1],
        !.setting1 = 0, !.setting2 = 4095, !.setting3 = 250,
        !.startOnMs = 0, !.startOffMs = 10000,
        !.mode = "Mode_AI_Continuous", !.state = "State_AI_Streaming" ]
  ELSE
    [ BaseCard(globalId) EXCEPT
        !.type = "SoftIO", !.index = globalId - SIO_START,
        !.hwPin = SIO_Pins[globalId - SIO_START + 1],
        !.setting1 = 1000, !.setting2 = 1000, !.setting3 = 1,
        !.mode = "Mode_DO_Normal", !.state = "State_DO_Idle" ]

initializeCardArraySafeDefaults == [ i \in CardIds |-> initializeCardSafeDefaults(i) ]

(***************************************************************************)
(* Condition evaluation.                                                   *)
(***************************************************************************)
\* a running test that takes only the ON phase for running
isDoRunningStateActiveOnly(state) == state = "State_DO_Active"

isDoRunningState(state) == state = "State_DO_OnDelay" \/ state = "State_DO_Active"

evalOperator(target, op, threshold) ==
  CASE op = "Op_AlwaysTrue" -> TRUE
    [] op = "Op_AlwaysFalse" -> FALSE
    [] op = "Op_LogicalTrue" -> target.logicalState
    [] op = "Op_LogicalFalse" -> ~target.logicalState
    [] op = "Op_PhysicalOn" -> target.physicalState
    [] op = "Op_PhysicalOff" -> ~target.physicalState
    [] op = "Op_Triggered" -> target.triggerFlag
    [] op = "Op_TriggerCleared" -> ~target.triggerFlag
    [] op = "Op_GT" -> target.currentValue > threshold
    [] op = "Op_LT" -> target.currentValue < threshold
    [] op = "Op_EQ" -> target.currentValue = threshold
    [] op = "Op_NEQ" -> target.currentValue # threshold
    [] op = "Op_GTE" -> target.currentValue >= threshold
    [] op = "Op_LTE" -> target.currentValue <= threshold
    [] op = "Op_Running" -> isDoRunningState(target.state)
    [] op = "Op_Finished" -> target.state = "State_DO_Finished"
    [] op = "Op_Stopped" ->
         target.state = "State_DO_Idle" \/ target.state = "State_DO_Finished"
    [] OTHER -> FALSE

\* getCardById returns nullptr for an id outside the table
evalCondition(cards, aId, aOp, aTh, bId, bOp, bTh, combine) ==
  LET aResult == IF aId \in CardIds THEN evalOperator(cards[aId], aOp, aTh) ELSE FALSE
      bResult == IF bId \in CardIds THEN evalOperator(cards[bId], bOp, bTh) ELSE FALSE
  IN  CASE combine = "Combine_None" -> aResult
        [] combine = "Combine_AND" -> aResult /\ bResult
        [] combine = "Combine_OR" -> aResult \/ bResult
        [] OTHER -> FALSE

setConditionOf(cards, card) ==
  evalCondition(cards, card.setA_ID, card.setA_Operator, card.setA_Threshold,
                card.setB_ID, card.setB_Operator, card.setB_Threshold,
                card.setCombine)

resetConditionOf(cards, card) ==
  evalCondition(cards, card.resetA_ID, card.resetA_Operator, card.resetA_Threshold,
                card.resetB_ID, card.resetB_Operator, card.resetB_Threshold,
                card.resetCombine)

(***************************************************************************)
(* Hardware pins.  Input levels are keyed by pin number, as digitalRead    *)
(* and analogRead take them; output levels are what digitalWrite last      *)
(* wrote to the pin.                                                       *)
(***************************************************************************)
InputPins == {13, 12, 14, 27}
OutputPins == {26, 25, 33, 32}
AnalogPins == {35, 34}
\* the inputs the environment toggles in the explored runs
LiveInputPins == {13, 12}

digitalRead(E, pin) == IF pin \in DOMAIN E.diLevel THEN E.diLevel[pin] ELSE FALSE
analogRead(E, pin) == IF pin \in DOMAIN E.adcLevel THEN E.adcLevel[pin] ELSE 0
digitalWrite(pins, pin, level) ==
  IF pin \in DOMAIN pins THEN [pins EXCEPT ![pin] = level] ELSE pins

\* isOutputMasked over the runtime control state carried in E
isOutputMasked(E, cardId) ==
  IF ~isDigitalOutputCard(cardId) THEN FALSE
  ELSE E.globalMask \/ E.cardMask[cardId]

(***************************************************************************)
(* One record per card evaluation, kept for the properties below.          *)
(***************************************************************************)
\* before and after are the card's history (see NoHistory) as it was when the
\* evaluation began and as the evaluation leaves it
EvalEntry(idx, pre, post, set, reset, prevSet, masked, nowMs, pins, before, after) ==
  [ idx |-> idx, pre |-> pre, post |-> post, set |-> set, reset |-> reset,
    prevSet |-> prevSet, masked |-> masked, now |-> nowMs,
    pinLevel |-> IF post.hwPin \in DOMAIN pins THEN pins[post.hwPin] ELSE FALSE,
    before |-> before, after |-> after ]

\* What is remembered of a card's earlier evaluations, for the properties
\* below.  For an input: the source and the pin level of its last
\* evaluation.  For a timer card: whether a mission is in progress (open),
\* when it started, the cycle counter it started with and the number of
\* times physicalState has gone from false to true since.
NoHistory ==
  [ source |-> "REAL", level |-> FALSE, open |-> FALSE, start |-> 0, base |-> 0,
    ons |-> 0 ]

(***************************************************************************)
(* Digital input.                                                          *)
(***************************************************************************)
resetDIRuntimeKeepsCounter(card) ==
  [ card EXCEPT !.logicalState = FALSE, !.triggerFlag = FALSE,
                !.startOnMs = 0, !.startOffMs = 0, !.repeatCounter = 0 ]

resetDIRuntime(card) ==
  [ card EXCEPT !.logicalState = FALSE, !.triggerFlag = FALSE, !.currentValue = 0,
                !.startOnMs = 0, !.startOffMs = 0, !.repeatCounter = 0 ]

processDICard(K, idx, nowMs, E) ==
  LET card0 == K.cards[idx]
      inTable == card0.id < TOTAL_CARDS
      sourceMode == IF inTable THEN E.inputSource[card0.id] ELSE "REAL"
      raw == IF sourceMode = "FORCED_HIGH" THEN TRUE
             ELSE IF sourceMode = "FORCED_LOW" THEN FALSE
             ELSE IF card0.hwPin # NO_PIN THEN digitalRead(E, card0.hwPin)
             ELSE FALSE
      sample == IF card0.invert THEN ~raw ELSE raw
      pinLevel == IF card0.hwPin # NO_PIN THEN digitalRead(E, card0.hwPin) ELSE FALSE
      card == [ card0 EXCEPT !.physicalState = sample ]
      cards1 == [ K.cards EXCEPT ![idx] = card ]
      setCondition == setConditionOf(cards1, card)
      resetCondition == resetConditionOf(cards1, card)
      previousSample == IF inTable /\ K.prevDIPrimed[card.id]
                        THEN K.prevDISample[card.id] ELSE sample
      risingEdge == ~previousSample /\ sample
      fallingEdge == previousSample /\ ~sample
      edgeMatchesMode ==
        CASE card.mode = "Mode_DI_Rising" -> risingEdge
          [] card.mode = "Mode_DI_Falling" -> fallingEdge
          [] card.mode = "Mode_DI_Change" -> risingEdge \/ fallingEdge
          [] OTHER -> FALSE
      elapsed == U32Sub(nowMs, card.startOnMs)
      sampled == resetCondition = FALSE /\ setCondition /\ inTable
      post ==
        IF resetCondition THEN
          [ resetDIRuntime(card) EXCEPT !.state = "State_DI_Inhibited" ]
        ELSE IF ~setCondition THEN
          [ card EXCEPT !.triggerFlag = FALSE, !.state = "State_DI_Idle" ]
        ELSE IF ~edgeMatchesMode THEN
          [ card EXCEPT !.triggerFlag = FALSE, !.state = "State_DI_Idle" ]
        ELSE IF card.setting1 > 0 /\ elapsed < card.setting1 THEN
          [ card EXCEPT !.triggerFlag = FALSE, !.state = "State_DI_Filtering" ]
        ELSE
          [ card EXCEPT !.triggerFlag = TRUE,
                        !.currentValue = U32Add(card.currentValue, 1),
                        !.logicalState = sample, !.startOnMs = nowMs,
                        !.state = "State_DI_Qualified" ]
  IN  [ K EXCEPT
          !.cards = [ K.cards EXCEPT ![idx] = post ],
          !.prevDISample = IF sampled THEN [ @ EXCEPT ![card.id] = sample ] ELSE @,
          !.prevDIPrimed = IF sampled THEN [ @ EXCEPT ![card.id] = TRUE ] ELSE @,
          !.hist = [ @ EXCEPT ![idx] = [ @ EXCEPT !.source = sourceMode,
                                                   !.level = pinLevel ] ],
          !.log = Append(@, EvalEntry(idx, card0, post, setCondition, resetCondition,
                                      FALSE, FALSE, nowMs, K.pins, K.hist[idx],
                                      [ K.hist[idx] EXCEPT !.source = sourceMode,
                                                           !.level = pinLevel ])) ]

(***************************************************************************)
(* Analog input.                                                           *)
(***************************************************************************)
clampUInt32(value, lo, hi) ==
  IF value < lo THEN lo ELSE IF value > hi THEN hi ELSE value

\* an analog input that scales the raw sample without clamping it first
processAICardNoClamp(K, idx, nowMs, E) ==
  LET card == K.cards[idx]
      raw == IF card.hwPin # NO_PIN THEN analogRead(E, card.hwPin) ELSE 0
      inMin == IF card.setting1 < card.setting2 THEN card.setting1 ELSE card.setting2
      inMax == IF card.setting1 < card.setting2 THEN card.setting2 ELSE card.setting1
      scaled == IF inMax # inMin
                THEN card.startOnMs
                       + ((raw - inMin) * (card.startOffMs - card.startOnMs))
                           \div (inMax - inMin)
                ELSE card.startOnMs
      alpha == IF card.setting3 > 1000 THEN 1000 ELSE card.setting3
      filtered == ((alpha * scaled) + ((1000 - alpha) * card.currentValue)) \div 1000
      post == [ card EXCEPT !.currentValue = filtered,
                            !.mode = "Mode_AI_Continuous",
                            !.state = "State_AI_Streaming" ]
  IN  [ K EXCEPT
          !.cards = [ K.cards EXCEPT ![idx] = post ],
          !.log = Append(@, EvalEntry(idx, card, post, FALSE, FALSE, FALSE, FALSE,
                                      nowMs, K.pins, K.hist[idx], K.hist[idx])) ]

processAICard(K, idx, nowMs, E) ==
  LET card == K.cards[idx]
      sourceMode == IF card.id < TOTAL_CARDS THEN E.inputSource[card.id] ELSE "REAL"
      raw == IF sourceMode = "FORCED_VALUE" THEN E.forcedAIValue[card.id]
             ELSE IF card.hwPin # NO_PIN THEN analogRead(E, card.hwPin)
             ELSE 0
      inMin == IF card.setting1 < card.setting2 THEN card.setting1 ELSE card.setting2
      inMax == IF card.setting1 < card.setting2 THEN card.setting2 ELSE card.setting1
      clamped == clampUInt32(raw, inMin, inMax)
      outMin == card.startOnMs
      outMax == card.startOffMs
      \* C++ integer division truncates toward zero
      num == (clamped - inMin) * (outMax - outMin)
      quot == IF num >= 0 THEN num \div (inMax - inMin)
              ELSE -((-num) \div (inMax - inMin))
      mapped == outMin + quot
      scaled == IF inMax # inMin THEN (IF mapped < 0 THEN 0 ELSE mapped)
                ELSE card.startOnMs
      alpha == IF card.setting3 > 1000 THEN 1000 ELSE card.setting3
      filtered == ((alpha * scaled) + ((1000 - alpha) * card.currentValue)) \div 1000
      post == [ card EXCEPT !.currentValue = filtered,
                            !.mode = "Mode_AI_Continuous",
                            !.state = "State_AI_Streaming" ]
  IN  [ K EXCEPT
          !.cards = [ K.cards EXCEPT ![idx] = post ],
          !.log = Append(@, EvalEntry(idx, card, post, FALSE, FALSE, FALSE, FALSE,
                                      nowMs, K.pins, K.hist[idx], K.hist[idx])) ]

(***************************************************************************)
(* Digital output and soft IO: the mission state machine.                  *)
(***************************************************************************)
\* forceDOIdle that never clears the cycle counter
forceDOIdleKeepsCounter(card, clearCounter) ==
  [ card EXCEPT !.logicalState = FALSE, !.physicalState = FALSE,
                !.triggerFlag = FALSE, !.startOnMs = 0, !.startOffMs = 0,
                !.repeatCounter = 0, !.state = "State_DO_Idle" ]

forceDOIdle(card, clearCounter) ==
  [ card EXCEPT !.logicalState = FALSE, !.physicalState = FALSE,
                !.triggerFlag = FALSE, !.startOnMs = 0, !.startOffMs = 0,
                !.repeatCounter = 0,
                !.currentValue = IF clearCounter THEN 0 ELSE @,
                !.state = "State_DO_Idle" ]

driveDOHardware(pins, card, driveHardware, level, masked) ==
  IF ~driveHardware THEN pins
  ELSE IF card.hwPin = NO_PIN THEN pins
  ELSE IF masked THEN pins
  ELSE digitalWrite(pins, card.hwPin, level)

\* a trigger decision that lets a rising edge retrigger a running card
DOTriggerFlagAnyState(card, setCondition, prevSet) ==
  LET setRisingEdge == setCondition /\ ~prevSet
      retriggerable == card.state = "State_DO_Idle" \/ card.state = "State_DO_Finished"
  IN  setRisingEdge \/ (retriggerable /\ setCondition)

\* the trigger decision of processDOCard
DOTriggerFlag(card, setCondition, prevSet) ==
  LET setRisingEdge == setCondition /\ ~prevSet
      retriggerable == card.state = "State_DO_Idle" \/ card.state = "State_DO_Finished"
  IN  retriggerable /\ (setRisingEdge \/ setCondition)

\* a phase step that treats a repeat count of 0 like any other count
DOPhaseStepCountsZero(card, nowMs) ==
  CASE card.state = "State_DO_OnDelay" ->
         IF card.setting1 = 0 THEN [ card |-> card, out |-> FALSE ]
         ELSE IF U32Sub(nowMs, card.startOnMs) >= card.setting1 THEN
           [ card |-> [ card EXCEPT !.state = "State_DO_Active", !.startOffMs = nowMs ],
             out |-> TRUE ]
         ELSE [ card |-> card, out |-> FALSE ]
    [] card.state = "State_DO_Active" ->
         IF card.setting2 = 0 THEN [ card |-> card, out |-> TRUE ]
         ELSE IF U32Sub(nowMs, card.startOffMs) >= card.setting2 THEN
           LET counted == [ card EXCEPT !.repeatCounter = U32Add(@, 1) ]
           IN  IF counted.repeatCounter >= card.setting3 THEN
                 [ card |-> [ counted EXCEPT !.logicalState = FALSE,
                                             !.state = "State_DO_Finished" ],
                   out |-> FALSE ]
               ELSE
                 [ card |-> [ counted EXCEPT !.state = "State_DO_OnDelay",
                                             !.startOnMs = nowMs ],
                   out |-> FALSE ]
         ELSE [ card |-> card, out |-> TRUE ]
    [] OTHER -> [ card |-> card, out |-> FALSE ]

\* the phase step of processDOCard: the switch over card.state
DOPhaseStep(card, nowMs) ==
  CASE card.state = "State_DO_OnDelay" ->
         IF card.setting1 = 0 THEN [ card |-> card, out |-> FALSE ]
         ELSE IF U32Sub(nowMs, card.startOnMs) >= card.setting1 THEN
           [ card |-> [ card EXCEPT !.state = "State_DO_Active", !.startOffMs = nowMs ],
             out |-> TRUE ]
         ELSE [ card |-> card, out |-> FALSE ]
    [] card.state = "State_DO_Active" ->
         IF card.setting2 = 0 THEN [ card |-> card, out |-> TRUE ]
         ELSE IF U32Sub(nowMs, card.startOffMs) >= card.setting2 THEN
           LET counted == [ card EXCEPT !.repeatCounter = U32Add(@, 1) ]
           IN  IF card.setting3 = 0 THEN
                 [ card |-> [ counted EXCEPT !.state = "State_DO_OnDelay",
                                             !.startOnMs = nowMs ],
                   out |-> FALSE ]
               ELSE IF counted.repeatCounter >= card.setting3 THEN
                 [ card |-> [ counted EXCEPT !.logicalState = FALSE,
                                             !.state = "State_DO_Finished" ],
                   out |-> FALSE ]
               ELSE
                 [ card |-> [ counted EXCEPT !.state = "State_DO_OnDelay",
                                             !.startOnMs = nowMs ],
                   out |-> FALSE ]
         ELSE [ card |-> card, out |-> TRUE ]
    [] OTHER -> [ card |-> card, out |-> FALSE ]

\* a mission whose evaluation leaves physicalState as it found it
DOMissionKeepsPhysical(card0, nowMs, setCondition, resetCondition, prevSet) ==
  LET trig == DOTriggerFlag(card0, setCondition, prevSet)
      flagged == [ card0 EXCEPT !.triggerFlag = trig ]
      started ==
        IF ~trig THEN flagged
        ELSE IF card0.mode = "Mode_DO_Immediate" THEN
          [ flagged EXCEPT !.logicalState = TRUE, !.repeatCounter = 0,
                           !.state = "State_DO_Active", !.startOffMs = nowMs ]
        ELSE
          [ flagged EXCEPT !.logicalState = TRUE, !.repeatCounter = 0,
                           !.state = "State_DO_OnDelay", !.startOnMs = nowMs ]
      step == DOPhaseStep(started, nowMs)
  IN  IF resetCondition THEN
        [ card |-> forceDOIdle(card0, TRUE), out |-> FALSE ]
      ELSE IF started.mode = "Mode_DO_Gated" /\ isDoRunningState(started.state)
              /\ ~setCondition THEN
        [ card |-> forceDOIdle(started, FALSE), out |-> FALSE ]
      ELSE
        [ card |-> step.card, out |-> step.out ]

\* processDOCard for given values of the two conditions: the card after the
\* evaluation and the level handed to driveDOHardware
DOMission(card0, nowMs, setCondition, resetCondition, prevSet) ==
  LET previousPhysical == card0.physicalState
      trig == DOTriggerFlag(card0, setCondition, prevSet)
      flagged == [ card0 EXCEPT !.triggerFlag = trig ]
      started ==
        IF ~trig THEN flagged
        ELSE IF card0.mode = "Mode_DO_Immediate" THEN
          [ flagged EXCEPT !.logicalState = TRUE, !.repeatCounter = 0,
                           !.state = "State_DO_Active", !.startOffMs = nowMs ]
        ELSE
          [ flagged EXCEPT !.logicalState = TRUE, !.repeatCounter = 0,
                           !.state = "State_DO_OnDelay", !.startOnMs = nowMs ]
      step == DOPhaseStep(started, nowMs)
      counted == IF ~previousPhysical /\ step.out
                 THEN [ step.card EXCEPT !.currentValue = U32Add(@, 1) ]
                 ELSE step.card
  IN  IF resetCondition THEN
        [ card |-> forceDOIdle(card0, TRUE), out |-> FALSE ]
      ELSE IF started.mode = "Mode_DO_Gated" /\ isDoRunningState(started.state)
              /\ ~setCondition THEN
        [ card |-> forceDOIdle(started, FALSE), out |-> FALSE ]
      ELSE
        [ card |-> [ counted EXCEPT !.physicalState = step.out ], out |-> step.out ]

\* the history of a timer card after an evaluation that took the card from
\* pre to post: a mission opens when the card is triggered and closes when
\* it is reset or, in Gated mode, evaluated with the set condition false
MissionHistory(h, pre, post, setCondition, resetCondition, nowMs) ==
  LET rising == IF ~pre.physicalState /\ post.physicalState THEN 1 ELSE 0
  IN  IF resetCondition \/ (pre.mode = "Mode_DO_Gated" /\ ~setCondition) THEN NoHistory
      ELSE IF post.triggerFlag THEN
        [ h EXCEPT !.open = TRUE, !.start = nowMs, !.base = pre.currentValue,
                   !.ons = rising ]
      ELSE IF h.open THEN [ h EXCEPT !.ons = @ + rising ]
      ELSE h

processDOCardMaskedStaysOff(K, idx, nowMs, driveHardware, E) ==
  LET card == K.cards[idx]
      setCondition == setConditionOf(K.cards, card)
      resetCondition == resetConditionOf(K.cards, card)
      inTable == card.id < TOTAL_CARDS
      prevSet == IF inTable THEN K.prevSet[card.id] ELSE FALSE
      masked == isOutputMasked(E, card.id)
      res0 == DOMission(card, nowMs, setCondition, resetCondition, prevSet)
      res == IF masked THEN [ res0 EXCEPT !.card.physicalState = FALSE ] ELSE res0
      pins1 == driveDOHardware(K.pins, res.card, driveHardware, res.out, masked)
      after == MissionHistory(K.hist[idx], card, res.card, setCondition,
                              resetCondition, nowMs)
  IN  [ K EXCEPT
          !.cards = [ K.cards EXCEPT ![idx] = res.card ],
          !.prevSet = IF inTable THEN [ @ EXCEPT ![card.id] = setCondition ] ELSE @,
          !.pins = pins1,
          !.hist = [ @ EXCEPT ![idx] = IF res.card.state = "State_DO_Finished"
                                       THEN NoHistory ELSE after ],
          !.log = Append(@, EvalEntry(idx, card, res.card, setCondition,
                                      resetCondition, prevSet, masked, nowMs, pins1,
                                      K.hist[idx], after)) ]

processDOCard(K, idx, nowMs, driveHardware, E) ==
  LET card == K.cards[idx]
      setCondition == setConditionOf(K.cards, card)
      resetCondition == resetConditionOf(K.cards, card)
      inTable == card.id < TOTAL_CARDS
      prevSet == IF inTable THEN K.prevSet[card.id] ELSE FALSE
      res == DOMission(card, nowMs, setCondition, resetCondition, prevSet)
      masked == isOutputMasked(E, card.id)
      pins1 == driveDOHardware(K.pins, res.card, driveHardware, res.out, masked)
      after == MissionHistory(K.hist[idx], card, res.card, setCondition,
                              resetCondition, nowMs)
  IN  [ K EXCEPT
          !.cards = [ K.cards EXCEPT ![idx] = res.card ],
          !.prevSet = IF inTable THEN [ @ EXCEPT ![card.id] = setCondition ] ELSE @,
          !.pins = pins1,
          !.hist = [ @ EXCEPT ![idx] = IF res.card.state = "State_DO_Finished"
                                       THEN NoHistory ELSE after ],
          !.log = Append(@, EvalEntry(idx, card, res.card, setCondition,
                                      resetCondition, prevSet, masked, nowMs, pins1,
                                      K.hist[idx], after)) ]

processSIOCard(K, idx, nowMs, E) == processDOCard(K, idx, nowMs, FALSE, E)

processCardById(K, cardId, nowMs, E) ==
  IF cardId >= TOTAL_CARDS THEN K
  ELSE IF isDigitalInputCard(cardId) THEN processDICard(K, cardId, nowMs, E)
  ELSE IF isAnalogInputCard(cardId) THEN processAICard(K, cardId, nowMs, E)
  ELSE IF isSoftIOCard(cardId) THEN processSIOCard(K, cardId, nowMs, E)
  ELSE IF isDigitalOutputCard(cardId) THEN processDOCard(K, cardId, nowMs, TRUE, E)
  ELSE K

(***************************************************************************)
(* Scan order and the scan cycle.                                          *)
(***************************************************************************)
scanOrderCardIdFromCursor(cursor) ==
  LET pos == IF TOTAL_CARDS = 0 THEN 0 ELSE cursor % TOTAL_CARDS
  IN  IF pos < NUM_DI THEN DI_START + pos
      ELSE IF pos - NUM_DI < NUM_AI THEN AI_START + (pos - NUM_DI)
      ELSE IF pos - NUM_DI - NUM_AI < NUM_SIO THEN SIO_START + (pos - NUM_DI - NUM_AI)
      ELSE DO_START + (pos - NUM_DI - NUM_AI - NUM_SIO)

\* K carries gScanCursor and gBreakpointPaused through the scan
processOneScanOrderedCard(K, nowMs, honorBreakpoints, E) ==
  LET cardId == scanOrderCardIdFromCursor(K.cursor)
      K1 == processCardById(K, cardId, nowMs, E)
  IN  [ K1 EXCEPT
          !.cursor = (K.cursor + 1) % TOTAL_CARDS,
          !.bpPaused = IF honorBreakpoints /\ E.runMode = "RUN_BREAKPOINT"
                          /\ E.cardBreakpoint[cardId]
                       THEN TRUE ELSE @ ]

RECURSIVE scanLoop(_, _, _, _, _)
scanLoop(K, i, nowMs, honorBreakpoints, E) ==
  IF i >= TOTAL_CARDS THEN [ K EXCEPT !.completed = TRUE ]
  ELSE LET K1 == processOneScanOrderedCard(K, nowMs, honorBreakpoints, E)
       IN  IF K1.bpPaused THEN [ K1 EXCEPT !.completed = FALSE ]
           ELSE scanLoop(K1, i + 1, nowMs, honorBreakpoints, E)

runFullScanCycle(K, nowMs, honorBreakpoints, E) ==
  scanLoop(K, 0, nowMs, honorBreakpoints, E)

(***************************************************************************)
(* Runtime control state and the kernel commands.  C is the record of the  *)
(* kernel's control globals, named as in the source.                       *)
(***************************************************************************)
initializeRuntimeControlState ==
  [ gRunMode |-> "RUN_NORMAL", gScanCursor |-> 0, gStepRequested |-> FALSE,
    gBreakpointPaused |-> FALSE, gTestModeActive |-> FALSE,
    gGlobalOutputMask |-> FALSE,
    gCardBreakpoint |-> [ i \in CardIds |-> FALSE ],
    gCardOutputMask |-> [ i \in CardIds |-> FALSE ],
    gCardInputSource |-> [ i \in CardIds |-> "REAL" ],
    gCardForcedAIValue |-> [ i \in CardIds |-> 0 ] ]

\* a run mode command that leaves the breakpoint pause as it is
setRunModeCommandKeepsPause(C, mode) ==
  [ C EXCEPT !.gRunMode = mode ]

setRunModeCommand(C, mode) ==
  [ C EXCEPT !.gRunMode = mode,
             !.gBreakpointPaused = IF mode # "RUN_BREAKPOINT" THEN FALSE ELSE @ ]

requestStepCommand(C) ==
  [ C EXCEPT !.gStepRequested = TRUE, !.gBreakpointPaused = FALSE,
             !.gRunMode = "RUN_STEP" ]

setBreakpointCommand(C, cardId, enabled) ==
  IF cardId >= TOTAL_CARDS THEN C
  ELSE [ C EXCEPT !.gCardBreakpoint[cardId] = enabled,
                  !.gBreakpointPaused = IF ~enabled THEN FALSE ELSE @ ]

setTestModeCommand(C, active) ==
  IF active THEN [ C EXCEPT !.gTestModeActive = TRUE ]
  ELSE [ C EXCEPT !.gTestModeActive = FALSE,
                  !.gCardInputSource = [ i \in CardIds |-> "REAL" ],
                  !.gCardOutputMask = [ i \in CardIds |-> FALSE ],
                  !.gCardForcedAIValue = [ i \in CardIds |-> 0 ],
                  !.gGlobalOutputMask = FALSE ]

setOutputMaskCommand(C, cardId, masked) ==
  IF cardId >= TOTAL_CARDS THEN C
  ELSE IF ~isDigitalOutputCard(cardId) THEN C
  ELSE [ C EXCEPT !.gCardOutputMask[cardId] = masked ]

setGlobalOutputMaskCommand(C, masked) == [ C EXCEPT !.gGlobalOutputMask = masked ]

setInputForceCommand(C, cardId, mode, forcedValue) ==
  IF cardId >= TOTAL_CARDS THEN C
  ELSE IF ~isInputCard(cardId) THEN C
  ELSE IF isDigitalInputCard(cardId) /\ mode = "FORCED_VALUE" THEN C
  ELSE IF isAnalogInputCard(cardId) /\ mode \in {"FORCED_HIGH", "FORCED_LOW"} THEN C
  ELSE [ C EXCEPT !.gCardInputSource[cardId] = mode,
                  !.gCardForcedAIValue[cardId] =
                     IF mode = "FORCED_VALUE" THEN forcedValue
                     ELSE IF mode = "REAL" THEN 0 ELSE @ ]

KernelCommand(type, cardId, flag, value, mode, inputMode) ==
  [ type |-> type, cardId |-> cardId, flag |-> flag, value |-> value,
    mode |-> mode, inputMode |-> inputMode ]

applyKernelCommand(C, command) ==
  CASE command.type = "KernelCmd_SetRunMode" -> setRunModeCommand(C, command.mode)
    [] command.type = "KernelCmd_StepOnce" -> requestStepCommand(C)
    [] command.type = "KernelCmd_SetBreakpoint" ->
         setBreakpointCommand(C, command.cardId, command.flag)
    [] command.type = "KernelCmd_SetTestMode" -> setTestModeCommand(C, command.flag)
    [] command.type = "KernelCmd_SetInputForce" ->
         setInputForceCommand(C, command.cardId, command.inputMode, command.value)
    [] command.type = "KernelCmd_SetOutputMask" ->
         setOutputMaskCommand(C, command.cardId, command.flag)
    [] command.type = "KernelCmd_SetOutputMaskGlobal" ->
         setGlobalOutputMaskCommand(C, command.flag)
    [] OTHER -> C

\* the queue is drained in order, each command applied in turn
RECURSIVE processKernelCommandQueueNewestFirst(_, _)
processKernelCommandQueueNewestFirst(C, q) ==
  IF q = << >> THEN C
  ELSE processKernelCommandQueueNewestFirst(applyKernelCommand(C, q[Len(q)]),
                                            SubSeq(q, 1, Len(q) - 1))

RECURSIVE processKernelCommandQueue(_, _)
processKernelCommandQueue(C, q) ==
  IF q = << >> THEN C
  ELSE processKernelCommandQueue(applyKernelCommand(C, Head(q)), Tail(q))

(***************************************************************************)
(* applyCommand: a portal request {name, payload} becomes a kernel         *)
(* command, or is refused (NoCommand).                                     *)
(***************************************************************************)
NoCommand == [ type |-> "none" ]

applyCommand(req) ==
  CASE req.name = "set_run_mode" ->
         IF req.mode \in {"RUN_NORMAL", "RUN_STEP", "RUN_BREAKPOINT", "RUN_SLOW"}
         THEN KernelCommand("KernelCmd_SetRunMode", 0, FALSE, 0, req.mode, "REAL")
         ELSE NoCommand
    [] req.name = "step_once" ->
         KernelCommand("KernelCmd_StepOnce", 0, FALSE, 0, "RUN_NORMAL", "REAL")
    [] req.name = "set_breakpoint" ->
         KernelCommand("KernelCmd_SetBreakpoint", req.cardId, req.flag, 0,
                       "RUN_NORMAL", "REAL")
    [] req.name = "set_test_mode" ->
         KernelCommand("KernelCmd_SetTestMode", 0, req.flag, 0, "RUN_NORMAL", "REAL")
    [] req.name = "set_input_force" ->
         IF ~req.forced THEN
           KernelCommand("KernelCmd_SetInputForce", req.cardId, FALSE, 0,
                         "RUN_NORMAL", "REAL")
         ELSE IF isDigitalInputCard(req.cardId) THEN
           KernelCommand("KernelCmd_SetInputForce", req.cardId, FALSE, 0, "RUN_NORMAL",
                         IF req.value # 0 THEN "FORCED_HIGH" ELSE "FORCED_LOW")
         ELSE IF isAnalogInputCard(req.cardId) THEN
           KernelCommand("KernelCmd_SetInputForce", req.cardId, FALSE, req.value,
                         "RUN_NORMAL", "FORCED_VALUE")
         ELSE NoCommand
    [] req.name = "set_output_mask" ->
         KernelCommand("KernelCmd_SetOutputMask", req.cardId, req.flag, 0,
                       "RUN_NORMAL", "REAL")
    [] req.name = "set_output_mask_global" ->
         KernelCommand("KernelCmd_SetOutputMaskGlobal", 0, req.flag, 0,
                       "RUN_NORMAL", "REAL")
    [] OTHER -> NoCommand

Request(name, cardId, flag, mode, forced, value) ==
  [ name |-> name, cardId |-> cardId, flag |-> flag, mode |-> mode,
    forced |-> forced, value |-> value ]

\* the requests submitted in the explored runs
MaskRequests ==
  { Request("set_output_mask", DO_START, f, "", FALSE, 0) : f \in BOOLEAN }
    \cup { Request("set_output_mask_global", 0, f, "", FALSE, 0) : f \in BOOLEAN }
ForceRequests ==
  { Request("set_input_force", DI_START, FALSE, "", TRUE, 1),
    Request("set_input_force", DI_START, FALSE, "", TRUE, 0),
    Request("set_input_force", DI_START, FALSE, "", FALSE, 0) }
QueueRequests ==
  { Request("set_output_mask_global", 0, f, "", FALSE, 0) : f \in BOOLEAN }
    \cup { Request("set_run_mode", 0, FALSE, "RUN_BREAKPOINT", FALSE, 0) }
BusyRequests == { Request("set_output_mask_global", 0, TRUE, "", FALSE, 0) }
DebugRequests ==
  { Request("set_run_mode", 0, FALSE, m, FALSE, 0) :
      m \in {"RUN_STEP", "RUN_BREAKPOINT"} }
    \cup { Request("step_once", 0, FALSE, "", FALSE, 0),
           Request("set_breakpoint", DI_START + 1, TRUE, "", FALSE, 0) }
PortalRequests ==
  { Request("set_run_mode", 0, FALSE, m, FALSE, 0) :
      m \in {"RUN_STEP", "RUN_BREAKPOINT", "RUN_SLOW"} }
    \cup { Request("step_once", 0, FALSE, "", FALSE, 0),
           Request("set_breakpoint", DI_START, TRUE, "", FALSE, 0),
           Request("set_test_mode", 0, TRUE, "", FALSE, 0),
           Request("set_input_force", DI_START, FALSE, "", TRUE, 1),
           Request("set_output_mask", DO_START, TRUE, "", FALSE, 0),
           Request("set_output_mask_global", 0, TRUE, "", FALSE, 0) }

(***************************************************************************)
(* Card tables as JSON.  A JSON card is a record with the fields of        *)
(* LogicCard; the setting3 of an analog input is the alpha as a JSON       *)
(* number, held here in thousandths.                                       *)
(***************************************************************************)
\* json["setting3"] = setting3 / 1000.0 for an analog input: setting3
\* thousandths; every other field is written as it is
serializeCardToJson(card) == card

serializeCardsToArray(sourceCards) ==
  [ i \in 1 .. TOTAL_CARDS |-> serializeCardToJson(sourceCards[i - 1]) ]

\* every field of the JSON card replaces the field of the card it is read
\* into; an analog alpha in 0..1 is scaled by 1000 and rounded, a larger one
\* is taken as a legacy milliunit value, truncated to an integer and clamped
deserializeCardFromJson(json, card) ==
  [ json EXCEPT
      !.setting3 =
        IF json.type = "AnalogInput" THEN
          IF json.setting3 >= 0 /\ json.setting3 <= 1000 THEN json.setting3
          ELSE clampUInt32(json.setting3 \div 1000, 0, 1000)
        ELSE @ ]

deserializeCardsFromArray(array) ==
  IF Len(array) # TOTAL_CARDS THEN [ ok |-> FALSE, cards |-> initializeCardArraySafeDefaults ]
  ELSE [ ok |-> TRUE,
         cards |-> [ i \in CardIds |->
                       deserializeCardFromJson(array[i + 1],
                                               initializeCardSafeDefaults(i)) ] ]

isModeAllowed(type, mode) ==
  CASE type = "DigitalInput" ->
         mode \in {"Mode_DI_Rising", "Mode_DI_Falling", "Mode_DI_Change"}
    [] type = "AnalogInput" -> mode = "Mode_AI_Continuous"
    [] type \in {"DigitalOutput", "SoftIO"} ->
         mode \in {"Mode_DO_Normal", "Mode_DO_Immediate", "Mode_DO_Gated"}
    [] OTHER -> FALSE

isAlwaysOp(op) == op \in {"Op_AlwaysTrue", "Op_AlwaysFalse"}
isNumericOp(op) == op \in {"Op_GT", "Op_LT", "Op_EQ", "Op_NEQ", "Op_GTE", "Op_LTE"}
isStateOp(op) ==
  op \in {"Op_LogicalTrue", "Op_LogicalFalse", "Op_PhysicalOn", "Op_PhysicalOff"}
isTriggerOp(op) == op \in {"Op_Triggered", "Op_TriggerCleared"}
isProcessOp(op) == op \in {"Op_Running", "Op_Finished", "Op_Stopped"}

isOperatorAllowedForTarget(targetType, op) ==
  IF isAlwaysOp(op) THEN TRUE
  ELSE CASE targetType = "AnalogInput" -> isNumericOp(op)
         [] targetType = "DigitalInput" ->
              isStateOp(op) \/ isTriggerOp(op) \/ isNumericOp(op)
         [] targetType \in {"DigitalOutput", "SoftIO"} ->
              isStateOp(op) \/ isTriggerOp(op) \/ isNumericOp(op) \/ isProcessOp(op)
         [] OTHER -> FALSE

validateConfigCardsArray(array) ==
  /\ Len(array) = TOTAL_CARDS
  /\ \A i \in 1 .. TOTAL_CARDS :
       /\ array[i].id \in CardIds
       /\ \A j \in 1 .. (i - 1) : array[j].id # array[i].id
       /\ array[i].setA_ID \in CardIds /\ array[i].setB_ID \in CardIds
       /\ array[i].resetA_ID \in CardIds /\ array[i].resetB_ID \in CardIds
  /\ LET typeById(id) == CHOOSE i \in 1 .. TOTAL_CARDS : array[i].id = id
         typeOf(id) == array[typeById(id)].type
     IN  \A i \in 1 .. TOTAL_CARDS :
           LET card == array[i]
           IN  /\ isModeAllowed(typeOf(card.id), card.mode)
               /\ card.hwPin >= 0 /\ card.setting1 >= 0 /\ card.setting2 >= 0
               /\ card.setting3 >= 0 /\ card.startOnMs >= 0 /\ card.startOffMs >= 0
               /\ card.setA_Threshold >= 0 /\ card.setB_Threshold >= 0
               /\ card.resetA_Threshold >= 0 /\ card.resetB_Threshold >= 0
               /\ (typeOf(card.id) = "AnalogInput" => card.setting3 <= 1000)
               /\ isOperatorAllowedForTarget(typeOf(card.setA_ID), card.setA_Operator)
               /\ isOperatorAllowedForTarget(typeOf(card.setB_ID), card.setB_Operator)
               /\ isOperatorAllowedForTarget(typeOf(card.resetA_ID), card.resetA_Operator)
               /\ isOperatorAllowedForTarget(typeOf(card.resetB_ID), card.resetB_Operator)

(***************************************************************************)
(* Configurations of the explored runs.  A timer card (DO 4 and SIO 10)    *)
(* is set by the level of DI 0 and reset by the level of DI 1.             *)
(***************************************************************************)
TimerCard(globalId, mode, s1, s2, s3) ==
  [ initializeCardSafeDefaults(globalId) EXCEPT
      !.mode = mode, !.setting1 = s1, !.setting2 = s2, !.setting3 = s3,
      !.setA_ID = 0, !.setA_Operator = "Op_PhysicalOn",
      !.resetA_ID = 1, !.resetA_Operator = "Op_PhysicalOn" ]

TimerConfig(mode, s1, s2, s3) ==
  [ i \in CardIds |->
      IF i = DO_START \/ i = SIO_START THEN TimerCard(i, mode, s1, s2, s3)
      ELSE IF i < DO_START THEN [ initializeCardSafeDefaults(i) EXCEPT !.setting1 = 0 ]
      ELSE initializeCardSafeDefaults(i) ]

TimerModes == {"Mode_DO_Normal", "Mode_DO_Immediate", "Mode_DO_Gated"}
\* <<on delay, on time, repeat count>>
TimerSettings == { <<10, 10, 1>>, <<10, 10, 2>>, <<10, 10, 0>>, <<0, 10, 1>>, <<10, 0, 1>> }
TimerConfigs ==
  { TimerConfig(m, t[1], t[2], t[3]) : m \in TimerModes, t \in TimerSettings }

(***************************************************************************)
(* Configurations for the digital inputs.  DI 0 is the card under test;    *)
(* DI 1 either resets it (gate "reset": set always true) or enables it     *)
(* (gate "set": never reset) by its level.  counter is the currentValue    *)
(* the stored configuration carries for DI 0.                              *)
(***************************************************************************)
DICard(mode, debounce, invert, gate, counter) ==
  [ initializeCardSafeDefaults(DI_START) EXCEPT
      !.mode = mode, !.setting1 = debounce, !.invert = invert,
      !.currentValue = counter,
      !.setA_ID = DI_START + 1,
      !.setA_Operator = IF gate = "set" THEN "Op_PhysicalOn" ELSE "Op_AlwaysTrue",
      !.resetA_ID = DI_START + 1,
      !.resetA_Operator = IF gate = "reset" THEN "Op_PhysicalOn" ELSE "Op_AlwaysFalse" ]

DIConfig(mode, debounce, invert, gate, counter) ==
  [ i \in CardIds |->
      IF i = DI_START THEN DICard(mode, debounce, invert, gate, counter)
      ELSE IF i < DO_START THEN [ initializeCardSafeDefaults(i) EXCEPT !.setting1 = 0 ]
      ELSE initializeCardSafeDefaults(i) ]

\* <<edge mode, debounce time, invert, gate, stored counter>>
DISettings ==
  { <<"Mode_DI_Rising", 0, FALSE, "reset", 0>>,
    <<"Mode_DI_Rising", DebounceMs, FALSE, "reset", 0>>,
    <<"Mode_DI_Falling", 0, TRUE, "reset", 0>>,
    <<"Mode_DI_Change", DebounceMs, FALSE, "set", 0>>,
    <<"Mode_DI_Change", 0, FALSE, "set", Wrap32 - 1>> }
DIConfigs == { DIConfig(t[1], t[2], t[3], t[4], t[5]) : t \in DISettings }

(***************************************************************************)
(* State.                                                                  *)
(***************************************************************************)
VARIABLES
  logicCards,             \* LogicCard logicCards[TOTAL_CARDS]
  gPrevSetCondition,      \* bool gPrevSetCondition[TOTAL_CARDS]
  gPrevDISample,          \* bool gPrevDISample[TOTAL_CARDS]
  gPrevDIPrimed,          \* bool gPrevDIPrimed[TOTAL_CARDS]
  ctl,                    \* gRunMode, gScanCursor, gStepRequested, ... (see above)
  gScanIntervalMs,
  lastScanMs,             \* core0EngineTask's local, passed by reference
  gKernelPauseRequested,
  gKernelPaused,
  gKernelCommandQueue,    \* FreeRTOS queue of KernelCommand, capacity 16
  gSharedSnapshot,
  pinOut,                 \* level last written to each output pin
  diLevel,                \* level of each digital input pin
  adcLevel,               \* reading of each analog pin
  now,                    \* millis()
  fs,                     \* LittleFS: path -> file contents, or NoFile
  ver,                    \* gConfigVersionCounter and the version strings
  portal,                 \* the portal task's commit in progress
  kern,                   \* the engine task's position inside an iteration
  lastIter,               \* what the last engine iteration did
  reads,                  \* the revisions the last two snapshot reads returned
  commitLog,              \* the outcome of the last commit / restore
  budget                  \* commands and commits still to be submitted, and
                          \* the error code of the reply to the last command

vars ==
  << logicCards, gPrevSetCondition, gPrevDISample, gPrevDIPrimed, ctl,
     gScanIntervalMs, lastScanMs, gKernelPauseRequested, gKernelPaused,
     gKernelCommandQueue, gSharedSnapshot, pinOut, diLevel, adcLevel, now, fs,
     ver, portal, kern, lastIter, reads, commitLog, budget >>

cardVars == << logicCards, gPrevSetCondition, gPrevDISample, gPrevDIPrimed, pinOut >>
envVars == << diLevel, adcLevel, now >>
storeVars == << fs, ver >>

(***************************************************************************)
(* The shared snapshot.                                                    *)
(***************************************************************************)
\* a snapshot rebuilt from a zeroed structure whenever the revision is not
\* incremented
updateSharedRuntimeSnapshotFromZero(snap, nowMs, incrementSeq, cards, C) ==
  [ seq |-> IF incrementSeq THEN U32Add(snap.seq, 1) ELSE 0,
    tsMs |-> nowMs,
    mode |-> C.gRunMode,
    testModeActive |-> C.gTestModeActive,
    globalOutputMask |-> C.gGlobalOutputMask,
    breakpointPaused |-> C.gBreakpointPaused,
    scanCursor |-> C.gScanCursor,
    cards |-> cards,
    inputSource |-> C.gCardInputSource,
    forcedAIValue |-> C.gCardForcedAIValue,
    outputMaskLocal |-> C.gCardOutputMask,
    breakpointEnabled |-> C.gCardBreakpoint ]

updateSharedRuntimeSnapshot(snap, nowMs, incrementSeq, cards, C) ==
  [ seq |-> IF incrementSeq THEN U32Add(snap.seq, 1) ELSE snap.seq,
    tsMs |-> nowMs,
    mode |-> C.gRunMode,
    testModeActive |-> C.gTestModeActive,
    globalOutputMask |-> C.gGlobalOutputMask,
    breakpointPaused |-> C.gBreakpointPaused,
    scanCursor |-> C.gScanCursor,
    cards |-> cards,
    inputSource |-> C.gCardInputSource,
    forcedAIValue |-> C.gCardForcedAIValue,
    outputMaskLocal |-> C.gCardOutputMask,
    breakpointEnabled |-> C.gCardBreakpoint ]

\* SharedRuntimeSnapshot gSharedSnapshot = {}
ZeroSnapshot ==
  [ seq |-> 0, tsMs |-> 0, mode |-> "RUN_NORMAL", testModeActive |-> FALSE,
    globalOutputMask |-> FALSE, breakpointPaused |-> FALSE, scanCursor |-> 0,
    cards |-> [ i \in CardIds |-> BaseCard(0) ],
    inputSource |-> [ i \in CardIds |-> "REAL" ],
    forcedAIValue |-> [ i \in CardIds |-> 0 ],
    outputMaskLocal |-> [ i \in CardIds |-> FALSE ],
    breakpointEnabled |-> [ i \in CardIds |-> FALSE ] ]

(***************************************************************************)
(* runEngineIteration, as a function of the state it reads.  The result    *)
(* names every global the iteration writes.                                *)
(***************************************************************************)
KernelEnv(C) ==
  [ inputSource |-> C.gCardInputSource, forcedAIValue |-> C.gCardForcedAIValue,
    globalMask |-> C.gGlobalOutputMask, cardMask |-> C.gCardOutputMask,
    runMode |-> C.gRunMode, cardBreakpoint |-> C.gCardBreakpoint,
    diLevel |-> diLevel, adcLevel |-> adcLevel ]

KernelState(C) ==
  [ cards |-> logicCards, prevSet |-> gPrevSetCondition,
    prevDISample |-> gPrevDISample, prevDIPrimed |-> gPrevDIPrimed,
    pins |-> pinOut, cursor |-> C.gScanCursor, bpPaused |-> C.gBreakpointPaused,
    log |-> << >>, completed |-> FALSE, hist |-> lastIter.hist ]

IterationResultCountsAll(kind, C, K, paused, lastScan, incrementSeq, nowMs) ==
  [ kind |-> kind,
    ctl |-> [ C EXCEPT !.gScanCursor = K.cursor, !.gBreakpointPaused = K.bpPaused ],
    K |-> K, paused |-> paused, lastScanMs |-> lastScan,
    incrementSeq |-> TRUE,
    snapshot |-> updateSharedRuntimeSnapshot(
                   gSharedSnapshot, nowMs, TRUE, K.cards,
                   [ C EXCEPT !.gScanCursor = K.cursor,
                              !.gBreakpointPaused = K.bpPaused ]) ]

IterationResult(kind, C, K, paused, lastScan, incrementSeq, nowMs) ==
  [ kind |-> kind,
    ctl |-> [ C EXCEPT !.gScanCursor = K.cursor, !.gBreakpointPaused = K.bpPaused ],
    K |-> K, paused |-> paused, lastScanMs |-> lastScan,
    incrementSeq |-> incrementSeq,
    snapshot |-> updateSharedRuntimeSnapshot(
                   gSharedSnapshot, nowMs, incrementSeq, K.cards,
                   [ C EXCEPT !.gScanCursor = K.cursor,
                              !.gBreakpointPaused = K.bpPaused ]) ]

\* runEngineIteration from "gKernelPaused = false" on, C being the control
\* state the command queue left
engineAfterPauseCheck(C, nowMs) ==
  LET K == KernelState(C)
      E == KernelEnv(C)
      lastScan0 == IF lastScanMs = 0 THEN nowMs ELSE lastScanMs
      scanInterval == IF C.gRunMode = "RUN_SLOW" THEN SLOW_SCAN_INTERVAL_MS
                      ELSE gScanIntervalMs
      lastScan1 == U32Add(lastScan0, scanInterval)
  IN  IF U32Sub(nowMs, lastScan0) < scanInterval THEN
        IterationResult("notdue", C, K, FALSE, lastScan0, FALSE, nowMs)
      ELSE IF C.gRunMode = "RUN_STEP" THEN
        IF C.gStepRequested THEN
          IterationResult("step", [ C EXCEPT !.gStepRequested = FALSE ],
                          processOneScanOrderedCard(K, nowMs, FALSE, E),
                          FALSE, lastScan1, TRUE, nowMs)
        ELSE IterationResult("stepidle", C, K, FALSE, lastScan1, FALSE, nowMs)
      ELSE IF C.gRunMode = "RUN_BREAKPOINT" /\ C.gBreakpointPaused THEN
        IterationResult("held", C, K, FALSE, lastScan1, FALSE, nowMs)
      ELSE
        IterationResult("scan", C,
                        runFullScanCycle(K, nowMs, C.gRunMode = "RUN_BREAKPOINT", E),
                        FALSE, lastScan1, TRUE, nowMs)

runEngineIteration(nowMs) ==
  IF gKernelPauseRequested THEN
    IterationResult("paused", processKernelCommandQueue(ctl, gKernelCommandQueue),
                    KernelState(processKernelCommandQueue(ctl, gKernelCommandQueue)),
                    TRUE, lastScanMs, FALSE, nowMs)
  ELSE engineAfterPauseCheck(processKernelCommandQueue(ctl, gKernelCommandQueue),
                             nowMs)

\* the step commands in a command queue
StepCommands(q) == Cardinality({ k \in DOMAIN q : q[k].type = "KernelCmd_StepOnce" })

\* kind tells which return of runEngineIteration ended the iteration; steps
\* counts the KernelCmd_StepOnce commands taken from the queue so far, and
\* stepEvals the card evaluations made for them; unapplied counts the
\* commands that were in the queue when the last snapshot was published, and
\* late the commands that were taken from the queue after such a snapshot
NoIteration ==
  [ kind |-> "none", at |-> 0, seqBefore |-> 0, seqAfter |-> 0,
    completed |-> FALSE, log |-> << >>, hist |-> [ i \in CardIds |-> NoHistory ],
    steps |-> 0, stepEvals |-> 0, unapplied |-> 0, late |-> 0 ]

\* the globals take the values the iteration r left in them
StoreIteration(r) ==
  /\ logicCards' = r.K.cards
  /\ gPrevSetCondition' = r.K.prevSet
  /\ gPrevDISample' = r.K.prevDISample
  /\ gPrevDIPrimed' = r.K.prevDIPrimed
  /\ pinOut' = r.K.pins
  /\ ctl' = r.ctl
  /\ lastScanMs' = r.lastScanMs
  /\ gKernelPaused' = r.paused
  /\ gKernelCommandQueue' = << >>
  /\ gSharedSnapshot' = r.snapshot
  /\ lastIter' = [ kind |-> r.kind, at |-> now, seqBefore |-> gSharedSnapshot.seq,
                   seqAfter |-> r.snapshot.seq, completed |-> r.K.completed,
                   log |-> r.K.log, hist |-> r.K.hist,
                   steps |-> lastIter.steps + StepCommands(gKernelCommandQueue),
                   stepEvals |-> lastIter.stepEvals
                                   + IF r.kind = "step" THEN Len(r.K.log) ELSE 0,
                   unapplied |-> 0, late |-> lastIter.late + lastIter.unapplied ]

\* one whole iteration of core0EngineTask's loop
EngineIteration ==
  /\ kern.pc = "idle"
  /\ StoreIteration(runEngineIteration(now))
  /\ UNCHANGED << gScanIntervalMs, gKernelPauseRequested, envVars, storeVars,
                  portal, kern, reads, commitLog, budget >>

(***************************************************************************)
(* The environment: the clock and the input pins.                          *)
(***************************************************************************)
\* the engine task's loop period is 1 ms: it has iterated at the current
\* time before the clock moves on by TickMs
Tick ==
  /\ now < MaxNow
  /\ lastIter.kind # "none" /\ lastIter.at = now
  /\ now' = now + TickMs
  /\ UNCHANGED << cardVars, ctl, gScanIntervalMs, lastScanMs, gKernelPauseRequested,
                  gKernelPaused, gKernelCommandQueue, gSharedSnapshot, diLevel,
                  adcLevel, storeVars, portal, kern, lastIter, reads, commitLog,
                  budget >>

InputChange ==
  /\ \E p \in LiveInputPins : diLevel' = [ diLevel EXCEPT ![p] = ~@ ]
  /\ UNCHANGED << cardVars, ctl, gScanIntervalMs, lastScanMs, gKernelPauseRequested,
                  gKernelPaused, gKernelCommandQueue, gSharedSnapshot, adcLevel, now,
                  storeVars, portal, kern, lastIter, reads, commitLog, budget >>

(***************************************************************************)
(* handleHttpCommand / the WebSocket command event: applyCommand and       *)
(* enqueueKernelCommand (xQueueSend with no wait).                         *)
(***************************************************************************)
enqueueKernelCommand(q, command) ==
  IF Len(q) < QUEUE_CAPACITY THEN [ ok |-> TRUE, q |-> Append(q, command) ]
  ELSE [ ok |-> FALSE, q |-> q ]

SubmitCommandSavesConfig(requests) ==
  /\ portal.pc = "idle"
  /\ budget.cmds > 0
  /\ \E req \in requests :
       LET command == applyCommand(req)
           sent == enqueueKernelCommand(gKernelCommandQueue, command)
           ok == command # NoCommand /\ sent.ok
       IN  /\ gKernelCommandQueue' =
                IF command = NoCommand THEN gKernelCommandQueue ELSE sent.q
           /\ budget' = [ budget EXCEPT
                            !.cmds = @ - 1,
                            !.reply = IF ok THEN "ok" ELSE "COMMAND_REJECTED" ]
  /\ fs' = [ fs EXCEPT !["/config.json"] = [ kind |-> "none" ] ]
  /\ UNCHANGED << cardVars, ctl, gScanIntervalMs, lastScanMs, gKernelPauseRequested,
                  gKernelPaused, gSharedSnapshot, envVars, ver, portal, kern,
                  lastIter, reads, commitLog >>

SubmitCommand(requests) ==
  /\ portal.pc = "idle"
  /\ budget.cmds > 0
  /\ \E req \in requests :
       LET command == applyCommand(req)
           sent == enqueueKernelCommand(gKernelCommandQueue, command)
           ok == command # NoCommand /\ sent.ok
       IN  /\ gKernelCommandQueue' =
                IF command = NoCommand THEN gKernelCommandQueue ELSE sent.q
           /\ budget' = [ budget EXCEPT
                            !.cmds = @ - 1,
                            !.reply = IF ok THEN "ok" ELSE "COMMAND_REJECTED" ]
  /\ UNCHANGED << cardVars, ctl, gScanIntervalMs, lastScanMs, gKernelPauseRequested,
                  gKernelPaused, gSharedSnapshot, envVars, storeVars, portal, kern,
                  lastIter, reads, commitLog >>

(***************************************************************************)
(* LittleFS.  A file holds a JSON card array, or what is left of one       *)
(* whose write failed (Truncated); NoFile is a path that does not exist.   *)
(***************************************************************************)
NoFile == [ kind |-> "none" ]
Truncated == [ kind |-> "truncated" ]
JsonFile(doc) == [ kind |-> "json", doc |-> doc ]
kConfigPath == "/config.json"
kStagedConfigPath == "/config_staged.json"
kLkgConfigPath == "/config_lkg.json"
kSlot1ConfigPath == "/config_slot1.json"
kSlot2ConfigPath == "/config_slot2.json"
kSlot3ConfigPath == "/config_slot3.json"
kFactoryConfigPath == "/config_factory.json"
kPortalSettingsPath == "/portal_settings.json"
Paths ==
  { kConfigPath, kStagedConfigPath, kLkgConfigPath, kSlot1ConfigPath,
    kSlot2ConfigPath, kSlot3ConfigPath, kFactoryConfigPath, kPortalSettingsPath }

\* the outcome of one file operation: it succeeds, the open fails, or the
\* write fails after the file was opened (and truncated) for writing
IoOutcomes == {"ok", "openFails", "writeFails"}

writeJsonToPath(files, path, doc, io) ==
  CASE io = "ok" -> [ ok |-> TRUE, files |-> [ files EXCEPT ![path] = JsonFile(doc) ] ]
    [] io = "openFails" -> [ ok |-> FALSE, files |-> files ]
    [] OTHER -> [ ok |-> FALSE, files |-> [ files EXCEPT ![path] = Truncated ] ]

saveCardsToPath(files, path, sourceCards, io) ==
  writeJsonToPath(files, path, serializeCardsToArray(sourceCards), io)

copyFileIfExists(files, srcPath, dstPath, io) ==
  IF files[srcPath] = NoFile THEN [ ok |-> TRUE, files |-> files ]
  ELSE CASE io = "ok" ->
              [ ok |-> TRUE, files |-> [ files EXCEPT ![dstPath] = files[srcPath] ] ]
         [] io = "openFails" -> [ ok |-> FALSE, files |-> files ]
         [] OTHER -> [ ok |-> FALSE, files |-> [ files EXCEPT ![dstPath] = Truncated ] ]

formatVersion(version) == <<"v", version>>

rotateHistoryVersions(v) ==
  [ v EXCEPT !.gSlot3Version = v.gSlot2Version, !.gSlot2Version = v.gSlot1Version,
             !.gSlot1Version = v.gLkgVersion, !.gLkgVersion = v.gActiveVersion ]

\* io[k] is the outcome of the k-th file operation of the commit
rotateHistoryFiles(files, v, io) ==
  LET c1 == copyFileIfExists(files, kSlot2ConfigPath, kSlot3ConfigPath, io[1])
      c2 == copyFileIfExists(c1.files, kSlot1ConfigPath, kSlot2ConfigPath, io[2])
      c3 == copyFileIfExists(c2.files, kLkgConfigPath, kSlot1ConfigPath, io[3])
      c4 == copyFileIfExists(c3.files, kConfigPath, kLkgConfigPath, io[4])
  IN  IF ~c1.ok THEN [ ok |-> FALSE, files |-> c1.files, ver |-> v ]
      ELSE IF ~c2.ok THEN [ ok |-> FALSE, files |-> c2.files, ver |-> v ]
      ELSE IF ~c3.ok THEN [ ok |-> FALSE, files |-> c3.files, ver |-> v ]
      ELSE IF ~c4.ok THEN [ ok |-> FALSE, files |-> c4.files, ver |-> v ]
      ELSE [ ok |-> TRUE, files |-> c4.files, ver |-> rotateHistoryVersions(v) ]

(***************************************************************************)
(* setup(): the state when the two tasks start.  /config.json holds the    *)
(* configuration of an earlier session, the portal settings a scan         *)
(* interval in the allowed range.                                          *)
(***************************************************************************)
BootFiles(config) ==
  [ p \in Paths |->
      IF p = kConfigPath THEN JsonFile(serializeCardsToArray(config))
      ELSE IF p = kFactoryConfigPath
        THEN JsonFile(serializeCardsToArray(initializeCardArraySafeDefaults))
      ELSE NoFile ]

\* bootstrapCardsFromStorage: the stored configuration when it loads and
\* validates, the factory defaults (saved as the active file) otherwise
bootstrapCardsFromStorage(files) ==
  IF files[kConfigPath].kind = "json"
     /\ validateConfigCardsArray(files[kConfigPath].doc)
  THEN [ cards |-> [ i \in CardIds |->
                       deserializeCardFromJson(files[kConfigPath].doc[i + 1],
                                               initializeCardSafeDefaults(i)) ],
         files |-> files ]
  ELSE [ cards |-> initializeCardArraySafeDefaults,
         files |-> [ files EXCEPT
                       ![kConfigPath] =
                         JsonFile(serializeCardsToArray(initializeCardArraySafeDefaults)) ] ]

\* the state the engine task is in at the time nowMs with its schedule at
\* lastScan; setup() leaves it at BootMs with lastScan = 0
SetupAt(files, scanInterval, cmds, commits, stalls, nowMs, lastScan) ==
  LET boot == bootstrapCardsFromStorage(files)
  IN  /\ logicCards = boot.cards
      /\ fs = boot.files
      /\ gPrevSetCondition = [ i \in CardIds |-> FALSE ]
      /\ gPrevDISample = [ i \in CardIds |-> FALSE ]
      /\ gPrevDIPrimed = [ i \in CardIds |-> FALSE ]
      /\ ctl = initializeRuntimeControlState
      /\ gScanIntervalMs = scanInterval
      /\ lastScanMs = lastScan
      /\ gKernelPauseRequested = FALSE
      /\ gKernelPaused = FALSE
      /\ gKernelCommandQueue = << >>
      /\ gSharedSnapshot =
           updateSharedRuntimeSnapshot(ZeroSnapshot, nowMs, FALSE, boot.cards,
                                       initializeRuntimeControlState)
      /\ pinOut = [ p \in OutputPins |-> FALSE ]
      /\ diLevel = [ p \in InputPins |-> FALSE ]
      /\ adcLevel = [ p \in AnalogPins |-> 0 ]
      /\ now = nowMs
      /\ ver = [ gConfigVersionCounter |-> 1, gActiveVersion |-> formatVersion(1),
                 gLkgVersion |-> << >>, gSlot1Version |-> << >>,
                 gSlot2Version |-> << >>, gSlot3Version |-> << >> ]
      /\ portal = [ pc |-> "idle" ]
      /\ kern = [ pc |-> "idle" ]
      /\ lastIter = NoIteration
      /\ reads = [ n |-> 0, prev |-> 0, cur |-> 0, lastPublishMs |-> 0, lastSeq |-> 0 ]
      /\ commitLog = [ n |-> 0, ok |-> TRUE, reason |-> "", changed |-> {},
                       truncated |-> {}, cardsSame |-> TRUE ]
      /\ budget = [ cmds |-> cmds, commits |-> commits, stalls |-> stalls,
                     reply |-> "none", settings |-> MaxSettings ]

SetupFrom(files, scanInterval, cmds, commits, stalls) ==
  SetupAt(files, scanInterval, cmds, commits, stalls, BootMs, 0)

Setup(config, scanInterval, cmds, commits, stalls) ==
  SetupFrom(BootFiles(config), scanInterval, cmds, commits, stalls)

(***************************************************************************)
(* Snapshot readers on the portal task: GET /api/snapshot and the          *)
(* WebSocket publisher.  reads holds the revisions of the last two         *)
(* snapshots sent to a client and the publisher's two statics.             *)
(***************************************************************************)
copySharedRuntimeSnapshot == gSharedSnapshot

\* the document a client receives; the cards are listed in scan order
serializeRuntimeSnapshot(snapshot, nowMs) ==
  [ tsMs |-> IF snapshot.tsMs = 0 THEN nowMs ELSE snapshot.tsMs,
    runMode |-> snapshot.mode,
    snapshotSeq |-> snapshot.seq,
    cards |-> [ i \in 1 .. TOTAL_CARDS |->
                  snapshot.cards[scanOrderCardIdFromCursor(i - 1)].id ] ]

Observe(doc) == [ reads EXCEPT !.n = IF @ < 2 THEN @ + 1 ELSE @,
                               !.prev = reads.cur, !.cur = doc.snapshotSeq ]

handleHttpSnapshot ==
  /\ portal.pc = "idle"
  /\ reads' = Observe(serializeRuntimeSnapshot(copySharedRuntimeSnapshot, now))
  /\ UNCHANGED << cardVars, ctl, gScanIntervalMs, lastScanMs, gKernelPauseRequested,
                  gKernelPaused, gKernelCommandQueue, gSharedSnapshot, envVars,
                  storeVars, portal, kern, lastIter, commitLog, budget >>

\* publishRuntimeSnapshotWebSocket up to its decision to publish: the first
\* copy of the snapshot and the throttle
WsPoll ==
  /\ portal.pc = "idle"
  /\ LET snapshot == copySharedRuntimeSnapshot
         hasUpdate == snapshot.seq # reads.lastSeq
         dueHeartbeat == U32Sub(now, reads.lastPublishMs) >= 1000
     IN  /\ hasUpdate \/ dueHeartbeat
         /\ ~(U32Sub(now, reads.lastPublishMs) < 200 /\ hasUpdate)
         /\ portal' = [ pc |-> "wsSend", seq |-> snapshot.seq, nowMs |-> now ]
  /\ UNCHANGED << cardVars, ctl, gScanIntervalMs, lastScanMs, gKernelPauseRequested,
                  gKernelPaused, gKernelCommandQueue, gSharedSnapshot, envVars,
                  storeVars, kern, lastIter, reads, commitLog, budget >>

\* the rest of it: serializeRuntimeSnapshot copies the snapshot again, the
\* document is broadcast, the statics are updated from the first copy
WsSend ==
  /\ portal.pc = "wsSend"
  /\ reads' = [ Observe(serializeRuntimeSnapshot(copySharedRuntimeSnapshot,
                                                 portal.nowMs))
                  EXCEPT !.lastPublishMs = portal.nowMs, !.lastSeq = portal.seq ]
  /\ portal' = [ pc |-> "idle" ]
  /\ UNCHANGED << cardVars, ctl, gScanIntervalMs, lastScanMs, gKernelPauseRequested,
                  gKernelPaused, gKernelCommandQueue, gSharedSnapshot, envVars,
                  storeVars, kern, lastIter, commitLog, budget >>

(***************************************************************************)
(* The commit pipeline on the portal task.  commitLog holds the outcome    *)
(* of the last commit or restore request: whether it succeeded, the paths  *)
(* whose contents differ from before the request, the paths left with a    *)
(* partial write, and whether the running card table is as it was.         *)
(***************************************************************************)
kPauseTimeoutMs == 1000

\* the outcomes of the five file operations of a commit: at most one fails
IoPlans ==
  { [ k \in 1 .. 5 |-> "ok" ] }
    \cup { [ k \in 1 .. 5 |-> IF k = f THEN o ELSE "ok" ] :
           f \in 1 .. 5, o \in {"openFails", "writeFails"} }

Outcome(ok, reason, filesBefore, filesAfter, cardsBefore, cardsAfter) ==
  [ n |-> IF commitLog.n < 2 THEN commitLog.n + 1 ELSE commitLog.n,
    ok |-> ok, reason |-> reason,
    changed |-> { p \in Paths : filesAfter[p] # filesBefore[p] },
    truncated |-> { p \in Paths : filesAfter[p] = Truncated /\ filesBefore[p] # Truncated },
    cardsSame |-> cardsAfter = cardsBefore ]

\* a refusal that comes after the history rotation has begun
RefuseAfterRotation(reason) ==
  /\ fs' = [ fs EXCEPT ![kLkgConfigPath] = fs[kConfigPath] ]
  /\ commitLog' = Outcome(FALSE, reason, fs, fs', logicCards, logicCards)
  /\ UNCHANGED << ver, portal, gKernelPauseRequested >>

\* a request refused before commitCards: nothing is written
Refuse(reason) ==
  /\ commitLog' = Outcome(FALSE, reason, fs, fs, logicCards, logicCards)
  /\ UNCHANGED << storeVars, portal, gKernelPauseRequested >>

\* commitCards up to the wait for the kernel in pauseKernelForConfigApply
commitCards(array, io) ==
  LET d == deserializeCardsFromArray(array)
      r == rotateHistoryFiles(fs, ver, io)
      w == saveCardsToPath(r.files, kConfigPath, d.cards, io[5])
  IN  IF ~d.ok THEN Refuse("failed to parse cards")
      ELSE IF ~r.ok THEN
        /\ fs' = r.files
        /\ commitLog' = Outcome(FALSE, "failed to rotate history slots", fs, r.files,
                                logicCards, logicCards)
        /\ UNCHANGED << ver, portal, gKernelPauseRequested >>
      ELSE IF ~w.ok THEN
        /\ fs' = w.files
        /\ ver' = r.ver
        /\ commitLog' = Outcome(FALSE, "failed to persist active config", fs, w.files,
                                logicCards, logicCards)
        /\ UNCHANGED << portal, gKernelPauseRequested >>
      ELSE
        /\ fs' = w.files
        /\ ver' = r.ver
        /\ gKernelPauseRequested' = TRUE
        /\ portal' = [ pc |-> "waitPause", start |-> now, nextCards |-> d.cards,
                       filesBefore |-> fs, cardsBefore |-> logicCards ]
        /\ UNCHANGED commitLog

\* POST /api/config/commit with the cards inline, or from the staged file
handleHttpCommitConfig(hasInlinePayload, array, io) ==
  /\ portal.pc = "idle"
  /\ budget.commits > 0
  /\ budget' = [ budget EXCEPT !.commits = @ - 1 ]
  /\ IF hasInlinePayload THEN
       IF ~validateConfigCardsArray(array) THEN Refuse("VALIDATION_FAILED")
       ELSE commitCards(array, io)
     ELSE IF fs[kStagedConfigPath].kind # "json" THEN Refuse("NOT_FOUND")
     ELSE IF ~validateConfigCardsArray(fs[kStagedConfigPath].doc)
       THEN Refuse("VALIDATION_FAILED")
     ELSE commitCards(fs[kStagedConfigPath].doc, io)
  /\ UNCHANGED << cardVars, ctl, gScanIntervalMs, lastScanMs, gKernelPaused,
                  gKernelCommandQueue, gSharedSnapshot, envVars, kern, lastIter,
                  reads >>

restorePathOf(source) ==
  CASE source = "LKG" -> kLkgConfigPath
    [] source = "SLOT1" -> kSlot1ConfigPath
    [] source = "SLOT2" -> kSlot2ConfigPath
    [] source = "SLOT3" -> kSlot3ConfigPath
    [] source = "FACTORY" -> kFactoryConfigPath
    [] OTHER -> ""

\* POST /api/config/restore
handleHttpRestoreConfig(source, io) ==
  /\ portal.pc = "idle"
  /\ budget.commits > 0
  /\ budget' = [ budget EXCEPT !.commits = @ - 1 ]
  /\ LET restorePath == restorePathOf(source)
     IN  IF restorePath = "" THEN Refuse("VALIDATION_FAILED")
         ELSE IF fs[restorePath] = NoFile THEN Refuse("NOT_FOUND")
         ELSE IF fs[restorePath].kind # "json" THEN Refuse("RESTORE_FAILED")
         ELSE IF ~validateConfigCardsArray(fs[restorePath].doc)
           THEN Refuse("RESTORE_FAILED")
         ELSE commitCards(fs[restorePath].doc, io)
  /\ UNCHANGED << cardVars, ctl, gScanIntervalMs, lastScanMs, gKernelPaused,
                  gKernelCommandQueue, gSharedSnapshot, envVars, kern, lastIter,
                  reads >>

\* applyCardsAsActiveConfig after pauseKernelForConfigApply returned true
applyCardsAsActiveConfig ==
  /\ logicCards' = portal.nextCards
  /\ gPrevSetCondition' = [ i \in CardIds |-> FALSE ]
  /\ gPrevDISample' = [ i \in CardIds |-> FALSE ]
  /\ gPrevDIPrimed' = [ i \in CardIds |-> FALSE ]
  /\ gSharedSnapshot' =
       updateSharedRuntimeSnapshot(gSharedSnapshot, now, FALSE, portal.nextCards, ctl)
  /\ gKernelPauseRequested' = FALSE
  /\ ver' = [ ver EXCEPT !.gConfigVersionCounter = U32Add(@, 1),
                         !.gActiveVersion =
                            formatVersion(U32Add(ver.gConfigVersionCounter, 1)) ]
  /\ commitLog' = Outcome(TRUE, "", portal.filesBefore, fs, portal.cardsBefore,
                          portal.cardsBefore)
  /\ portal' = [ pc |-> "idle" ]
  /\ UNCHANGED << pinOut, ctl, gScanIntervalMs, lastScanMs, gKernelPaused,
                  gKernelCommandQueue, envVars, fs, kern, lastIter, reads, budget >>

\* applyCardsAsActiveConfig after pauseKernelForConfigApply returned false
applyCardsAsActiveConfigFails ==
  /\ gKernelPauseRequested' = FALSE
  /\ commitLog' = Outcome(FALSE, "failed to apply active config to runtime",
                          portal.filesBefore, fs, portal.cardsBefore, logicCards)
  /\ portal' = [ pc |-> "idle" ]
  /\ UNCHANGED << cardVars, ctl, gScanIntervalMs, lastScanMs, gKernelPaused,
                  gKernelCommandQueue, gSharedSnapshot, envVars, storeVars, kern,
                  lastIter, reads, budget >>

CommitApply ==
  /\ portal.pc = "waitPause"
  /\ gKernelPaused
  /\ applyCardsAsActiveConfig

\* the wait gives up after kPauseTimeoutMs
CommitTimeout ==
  /\ portal.pc = "waitPause"
  /\ ~gKernelPaused
  /\ U32Sub(now, portal.start) >= kPauseTimeoutMs
  /\ applyCardsAsActiveConfigFails

\* the engine task gets no processor time for StallMs
Stall ==
  /\ budget.stalls > 0
  /\ budget' = [ budget EXCEPT !.stalls = @ - 1 ]
  /\ now' = now + StallMs
  /\ UNCHANGED << cardVars, ctl, gScanIntervalMs, lastScanMs, gKernelPauseRequested,
                  gKernelPaused, gKernelCommandQueue, gSharedSnapshot, diLevel,
                  adcLevel, storeVars, portal, kern, lastIter, reads, commitLog >>

(***************************************************************************)
(* The timer cards under the scan engine: every timer configuration, the   *)
(* two inputs and the clock.                                               *)
(***************************************************************************)
InitCards == \E config \in TimerConfigs : Setup(config, kMinScanIntervalMs, 0, 0, 0)

NextCards == Tick \/ InputChange \/ EngineIteration

SpecCards == InitCards /\ [][NextCards]_vars

(***************************************************************************)
(* The whole device: the scan engine, the portal's runtime commands, the   *)
(* snapshot readers and the commit pipeline, from one stored               *)
(* configuration.                                                          *)
(***************************************************************************)
BootConfig == TimerConfig("Mode_DO_Immediate", 10, 10, 1)

\* the card arrays a client commits: a valid one, and one whose DO card 4
\* has a mode of another family
CandidateValid == serializeCardsToArray(TimerConfig("Mode_DO_Normal", 10, 10, 2))
CandidateBadMode ==
  [ CandidateValid EXCEPT ![DO_START + 1].mode = "Mode_DI_Rising" ]
CommitCandidates == { CandidateValid, CandidateBadMode }
RestoreSources == { "LKG", "FACTORY" }

AllOk == [ k \in 1 .. 5 |-> "ok" ]

Init == Setup(BootConfig, kDefaultScanIntervalMs, MaxCmds, MaxCommits, MaxStalls)

SubmitAnyCommand == SubmitCommand(PortalRequests)

CommitRequest ==
  \E array \in CommitCandidates : handleHttpCommitConfig(TRUE, array, AllOk)

RestoreRequest ==
  \E source \in RestoreSources : handleHttpRestoreConfig(source, AllOk)

Next ==
  \/ Stall
  \/ EngineIteration
  \/ SubmitAnyCommand
  \/ handleHttpSnapshot
  \/ WsPoll
  \/ WsSend
  \/ CommitRequest
  \/ RestoreRequest
  \/ CommitApply
  \/ CommitTimeout

Spec == Init /\ [][Next]_vars

\* C6: of any two successive snapshots sent to a client, over HTTP or the
\* WebSocket, the later one does not carry a lower revision.
RevisionNeverGoesBack == reads.n >= 2 => reads.cur >= reads.prev

\* two successive reads saw the revision advance, with a commit applied
RevisionNeverGoesBackReached ==
  /\ reads.n >= 2
  /\ reads.cur > reads.prev
  /\ commitLog.n > 0 /\ commitLog.ok

\* C7: an engine iteration raises the revision by one when it completed a
\* scan of all cards, and leaves it alone otherwise.
RevisionPerCompleteScan ==
  lastIter.kind # "none" =>
    lastIter.seqAfter = lastIter.seqBefore + (IF lastIter.completed THEN 1 ELSE 0)

(***************************************************************************)
(* The commit pipeline with failing file operations and a stalled kernel.  *)
(***************************************************************************)
InitCommit == Setup(BootConfig, kDefaultScanIntervalMs, 0, CommitRuns, MaxStalls)

CommitWithFaults ==
  \E array \in CommitCandidates, io \in IoPlans : handleHttpCommitConfig(TRUE, array, io)

RestoreWithFaults ==
  \E source \in RestoreSources, io \in IoPlans : handleHttpRestoreConfig(source, io)

NextCommit ==
  \/ Stall
  \/ EngineIteration
  \/ CommitWithFaults
  \/ RestoreWithFaults
  \/ CommitApply
  \/ CommitTimeout

SpecCommit == InitCommit /\ [][NextCommit]_vars

HistoryPaths == { kLkgConfigPath, kSlot1ConfigPath, kSlot2ConfigPath, kSlot3ConfigPath }

\* C3: after a commit or restore that failed, /config.json holds what it held
\* before the request and the running card table is as it was.
FailedCommitKeepsActive ==
  (commitLog.n > 0 /\ ~commitLog.ok) =>
    (kConfigPath \notin commitLog.changed /\ commitLog.cardsSame)

\* C4: after a commit or restore that failed, the LKG file and the three
\* history slots hold what they held before the request, and no file is left
\* with a partial write.
FailedCommitKeepsHistory ==
  (commitLog.n > 0 /\ ~commitLog.ok) =>
    (commitLog.changed \cap HistoryPaths = {} /\ commitLog.truncated = {})

\* the evaluations of timer cards (DO and SIO) in the last engine iteration
TimerEvals ==
  { lastIter.log[i] : i \in { k \in DOMAIN lastIter.log :
        isDigitalOutputCard(lastIter.log[k].idx) \/ isSoftIOCard(lastIter.log[k].idx) } }

\* C1: whenever a DO or SIO card is evaluated with its set and its reset
\* condition both true, the card comes out IDLE with logicalState and
\* physicalState false and its cycle counter (currentValue) and repeat
\* counter 0, whatever its mode and the state it was in.
ResetWins ==
  \A e \in TimerEvals :
    (e.set /\ e.reset) =>
      /\ e.post.state = "State_DO_Idle"
      /\ ~e.post.logicalState
      /\ ~e.post.physicalState
      /\ e.post.currentValue = 0
      /\ e.post.repeatCounter = 0

\* a running card that has counted a cycle is evaluated with set and reset
\* both true
ResetWinsReached ==
  \E e \in TimerEvals :
    /\ e.set /\ e.reset
    /\ e.pre.state = "State_DO_Active"
    /\ e.pre.currentValue > 0

\* C9: a Normal or Immediate card evaluated in ONDELAY or ACTIVE with a rising
\* edge of its set condition comes out exactly as it would have with the set
\* condition still false.
RunningIgnoresSetEdge ==
  \A e \in TimerEvals :
    ( /\ e.pre.mode \in {"Mode_DO_Normal", "Mode_DO_Immediate"}
      /\ isDoRunningState(e.pre.state)
      /\ e.set /\ ~e.prevSet )
    => e.post = DOMission(e.pre, e.now, FALSE, e.reset, FALSE).card

\* a rising set edge reaches a Normal or Immediate card in ACTIVE, with no
\* reset, and the card is still ACTIVE afterwards
RunningIgnoresSetEdgeReached ==
  \E e \in TimerEvals :
    /\ e.pre.mode \in {"Mode_DO_Normal", "Mode_DO_Immediate"}
    /\ e.pre.state = "State_DO_Active"
    /\ e.set /\ ~e.prevSet /\ ~e.reset
    /\ e.post.state = "State_DO_Active"

\* C10: a card in IDLE or FINISHED leaves that state for ONDELAY or ACTIVE only
\* in an evaluation where its set condition was false at the previous
\* evaluation and is true now.
StartsOnlyOnRisingEdge ==
  \A e \in TimerEvals :
    ( /\ e.pre.state \in {"State_DO_Idle", "State_DO_Finished"}
      /\ isDoRunningState(e.post.state) )
    => (e.set /\ ~e.prevSet)

\* C8: the cards of one engine iteration are evaluated in ascending cardId
\* order.
ScanAscendingCardId ==
  \A i, j \in DOMAIN lastIter.log :
    i < j => lastIter.log[i].idx < lastIter.log[j].idx

(***************************************************************************)
(* The output mask: timer cards under the scan engine with the two mask    *)
(* commands.                                                               *)
(***************************************************************************)
MaskConfigs ==
  { TimerConfig("Mode_DO_Immediate", 10, 10, 1), TimerConfig("Mode_DO_Normal", 10, 0, 1) }

InitMask == \E config \in MaskConfigs : Setup(config, kMinScanIntervalMs, MaxCmds, 0, 0)

SubmitMaskCommand == SubmitCommand(MaskRequests)

NextMask == Tick \/ InputChange \/ EngineIteration \/ SubmitMaskCommand

SpecMask == InitMask /\ [][NextMask]_vars

\* the evaluations of DO cards with a pin in the last engine iteration
OutputEvals ==
  { lastIter.log[i] : i \in { k \in DOMAIN lastIter.log :
        /\ isDigitalOutputCard(lastIter.log[k].idx)
        /\ lastIter.log[k].post.hwPin # NO_PIN } }

\* C2: after every evaluation of a DO card its pin is high exactly when the
\* card's physicalState is true and the card is not masked, globally or by
\* its own mask.
PinIsMaskedPhysicalState ==
  \A e \in OutputEvals : e.pinLevel = (e.post.physicalState /\ ~e.masked)


(***************************************************************************)
(* The two tasks at the grain of their shared accesses.  The engine task   *)
(* reads gKernelPauseRequested (KernelBegin), writes gKernelPaused and     *)
(* decides whether a scan is due (KernelResume), then evaluates one card   *)
(* per step (KernelScanCard).  The portal task requests the pause, leaves  *)
(* the wait loop (PauseWaitExit), reads gKernelPaused again for the return *)
(* value (PauseReturn) and copies the new cards in (CommitSwap).           *)
(***************************************************************************)
\* runEngineIteration from its entry to the test of gKernelPauseRequested
KernelBegin ==
  /\ kern.pc = "idle"
  /\ LET C == processKernelCommandQueue(ctl, gKernelCommandQueue)
     IN  /\ ctl' = C
         /\ gKernelCommandQueue' = << >>
         /\ IF gKernelPauseRequested THEN
              /\ gKernelPaused' = TRUE
              /\ gSharedSnapshot' =
                   updateSharedRuntimeSnapshot(gSharedSnapshot, now, FALSE, logicCards, C)
              /\ lastIter' = [ kind |-> "paused", at |-> now,
                               seqBefore |-> gSharedSnapshot.seq,
                               seqAfter |-> gSharedSnapshot.seq,
                               completed |-> FALSE, log |-> << >>,
                               hist |-> lastIter.hist,
                               steps |-> lastIter.steps
                                           + StepCommands(gKernelCommandQueue),
                               stepEvals |-> lastIter.stepEvals,
                               unapplied |-> 0,
                               late |-> lastIter.late + lastIter.unapplied ]
              /\ UNCHANGED kern
            ELSE
              /\ kern' = [ pc |-> "resume", nowMs |-> now ]
              /\ lastIter' = [ lastIter EXCEPT
                                 !.steps = @ + StepCommands(gKernelCommandQueue),
                                 !.unapplied = 0,
                                 !.late = @ + lastIter.unapplied ]
              /\ UNCHANGED << gKernelPaused, gSharedSnapshot >>
  /\ UNCHANGED << cardVars, gScanIntervalMs, lastScanMs, gKernelPauseRequested,
                  envVars, storeVars, portal, reads, commitLog, budget >>

\* from "gKernelPaused = false" to the call of runFullScanCycle; r is the
\* iteration the engine runs from here when nothing else touches its state
KernelResumeWith(r) ==
  /\ gKernelPaused' = FALSE
  /\ lastScanMs' = r.lastScanMs
  /\ IF r.kind = "scan" THEN
       /\ kern' = [ pc |-> "scan", nowMs |-> kern.nowMs, i |-> 0,
                    honorBreakpoints |-> ctl.gRunMode = "RUN_BREAKPOINT",
                    log |-> << >>, hist |-> lastIter.hist ]
       /\ UNCHANGED << cardVars, ctl, gSharedSnapshot, lastIter >>
     ELSE
       /\ kern' = [ pc |-> "idle" ]
       /\ logicCards' = r.K.cards
       /\ gPrevSetCondition' = r.K.prevSet
       /\ gPrevDISample' = r.K.prevDISample
       /\ gPrevDIPrimed' = r.K.prevDIPrimed
       /\ pinOut' = r.K.pins
       /\ ctl' = r.ctl
       /\ gSharedSnapshot' = r.snapshot
       /\ lastIter' = [ kind |-> r.kind, at |-> now,
                        seqBefore |-> gSharedSnapshot.seq,
                        seqAfter |-> r.snapshot.seq, completed |-> r.K.completed,
                        log |-> r.K.log, hist |-> r.K.hist,
                        steps |-> lastIter.steps,
                        stepEvals |-> lastIter.stepEvals
                                        + IF r.kind = "step" THEN Len(r.K.log) ELSE 0,
                        unapplied |-> Len(gKernelCommandQueue),
                        late |-> lastIter.late ]

KernelResume ==
  /\ kern.pc = "resume"
  /\ KernelResumeWith(engineAfterPauseCheck(ctl, kern.nowMs))
  /\ UNCHANGED << gScanIntervalMs, gKernelPauseRequested, gKernelCommandQueue,
                  envVars, storeVars, portal, reads, commitLog, budget >>

\* one turn of runFullScanCycle's loop, and after the last one the
\* snapshot update that ends the iteration; K is the state the card's
\* evaluation leaves
KernelScanCardWith(K) ==
  /\ logicCards' = K.cards
  /\ gPrevSetCondition' = K.prevSet
  /\ gPrevDISample' = K.prevDISample
  /\ gPrevDIPrimed' = K.prevDIPrimed
  /\ pinOut' = K.pins
  /\ ctl' = [ ctl EXCEPT !.gScanCursor = K.cursor, !.gBreakpointPaused = K.bpPaused ]
  /\ IF K.bpPaused \/ kern.i + 1 = TOTAL_CARDS THEN
       /\ kern' = [ pc |-> "idle" ]
       /\ gSharedSnapshot' =
            updateSharedRuntimeSnapshot(
              gSharedSnapshot, kern.nowMs, TRUE, K.cards,
              [ ctl EXCEPT !.gScanCursor = K.cursor,
                           !.gBreakpointPaused = K.bpPaused ])
       /\ lastIter' = [ kind |-> "scan", at |-> now,
                        seqBefore |-> gSharedSnapshot.seq,
                        seqAfter |-> U32Add(gSharedSnapshot.seq, 1),
                        completed |-> ~K.bpPaused, log |-> K.log, hist |-> K.hist,
                        steps |-> lastIter.steps, stepEvals |-> lastIter.stepEvals,
                        unapplied |-> Len(gKernelCommandQueue),
                        late |-> lastIter.late ]
     ELSE
       /\ kern' = [ kern EXCEPT !.i = @ + 1, !.log = K.log, !.hist = K.hist ]
       /\ UNCHANGED << gSharedSnapshot, lastIter >>

KernelScanCard ==
  /\ kern.pc = "scan"
  /\ KernelScanCardWith(
       processOneScanOrderedCard([ KernelState(ctl) EXCEPT !.log = kern.log,
                                                           !.hist = kern.hist ],
                                 kern.nowMs, kern.honorBreakpoints, KernelEnv(ctl)))
  /\ UNCHANGED << gScanIntervalMs, lastScanMs, gKernelPauseRequested, gKernelPaused,
                  gKernelCommandQueue, envVars, storeVars, portal, reads, commitLog,
                  budget >>

\* pauseKernelForConfigApply: the wait loop ends, on gKernelPaused or on
\* the timeout
PauseWaitExit ==
  /\ portal.pc = "waitPause"
  /\ gKernelPaused \/ U32Sub(now, portal.start) >= kPauseTimeoutMs
  /\ portal' = [ portal EXCEPT !.pc = "pauseReturn" ]
  /\ UNCHANGED << cardVars, ctl, gScanIntervalMs, lastScanMs, gKernelPauseRequested,
                  gKernelPaused, gKernelCommandQueue, gSharedSnapshot, envVars,
                  storeVars, kern, lastIter, reads, commitLog, budget >>

\* "return gKernelPaused" and the test of it in applyCardsAsActiveConfig
PauseReturn ==
  /\ portal.pc = "pauseReturn"
  /\ IF gKernelPaused THEN
       /\ portal' = [ portal EXCEPT !.pc = "apply" ]
       /\ UNCHANGED << cardVars, ctl, gScanIntervalMs, lastScanMs,
                       gKernelPauseRequested, gKernelPaused, gKernelCommandQueue,
                       gSharedSnapshot, envVars, storeVars, kern, lastIter, reads,
                       commitLog, budget >>
     ELSE applyCardsAsActiveConfigFails

\* the memcpy of the new cards and what follows it
CommitSwap ==
  /\ portal.pc = "apply"
  /\ applyCardsAsActiveConfig

InitRace == Setup(BootConfig, kDefaultScanIntervalMs, 0, CommitRuns, MaxStalls)

NextRace ==
  \/ Stall
  \/ KernelBegin
  \/ KernelResume
  \/ KernelScanCard
  \/ CommitRequest
  \/ PauseWaitExit
  \/ PauseReturn
  \/ CommitSwap

SpecRace == InitRace /\ [][NextRace]_vars

\* C5: every step in which the portal task replaces the running card table
\* (the memcpy of applyCardsAsActiveConfig) is taken while the engine task is
\* not part-way through a scan, that is, not after it has evaluated some but
\* not all of the scan's cards.
SwapOnlyBetweenScans ==
  [][ (portal.pc = "apply" /\ portal'.pc = "idle")
        => ~(kern.pc = "scan" /\ kern.i > 0) ]_vars


(***************************************************************************)
(* Timer missions: the gate, the repeat count and the two phase timers.    *)
(* These are checked under SpecCards.                                      *)
(***************************************************************************)
\* the card is reset, or aborted by its gate, in the evaluation e
MissionStopped(e) == e.reset \/ (e.pre.mode = "Mode_DO_Gated" /\ ~e.set)

\* C11: a Gated card that is in ONDELAY or ACTIVE and is evaluated with its
\* set condition false comes out of the evaluation in IDLE with logicalState
\* and physicalState false, and that is how the scan leaves it.
GatedDropAborts ==
  \A e \in TimerEvals :
    ( /\ e.pre.mode = "Mode_DO_Gated"
      /\ e.pre.state \in {"State_DO_OnDelay", "State_DO_Active"}
      /\ ~e.set )
    => /\ e.post.state = "State_DO_Idle"
       /\ ~e.post.logicalState /\ ~e.post.physicalState
       /\ logicCards[e.idx] = e.post

\* the set condition drops, with no reset, on a Gated card in its ON phase
GatedDropAbortsReached ==
  \E e \in TimerEvals :
    /\ e.pre.mode = "Mode_DO_Gated"
    /\ e.pre.state = "State_DO_Active" /\ e.pre.physicalState
    /\ ~e.set /\ ~e.reset
    /\ e.post.state = "State_DO_Idle"

\* C12: a mission of a card with repeat count N >= 1 enters FINISHED after
\* exactly N ON phases, with the cycle counter N above where it started and
\* logicalState false; and a mission that is not stopped has entered
\* FINISHED once N delays, N ON times and two scan intervals per phase have
\* passed since it started.
MissionRunsNPhases ==
  \A e \in TimerEvals :
    /\ ( e.post.state = "State_DO_Finished" /\ e.pre.state # "State_DO_Finished" )
       => /\ e.pre.setting3 >= 1
          /\ e.after.open
          /\ e.after.ons = e.pre.setting3
          /\ e.post.currentValue = e.after.base + e.pre.setting3
          /\ ~e.post.logicalState
    /\ ( /\ e.pre.setting3 >= 1
         /\ e.after.open
         /\ U32Sub(e.now, e.after.start) >=
              e.pre.setting3 * (e.pre.setting1 + e.pre.setting2 + 2 * gScanIntervalMs) )
       => e.post.state = "State_DO_Finished"

OnDelayExpires ==
  \A e \in TimerEvals :
    ( /\ e.pre.state = "State_DO_OnDelay"
      /\ ~MissionStopped(e)
      /\ U32Sub(e.now, e.pre.startOnMs) >= e.pre.setting1 )
    => (e.post.state = "State_DO_Active" /\ e.post.physicalState)

(***************************************************************************)
(* The digital inputs under the scan engine: every input configuration,    *)
(* the two pins, the clock and the force commands for DI 0.                *)
(***************************************************************************)
InitDI == \E config \in DIConfigs : Setup(config, kMinScanIntervalMs, MaxForces, 0, 0)

SubmitForceCommand == SubmitCommand(ForceRequests)

NextDI == Tick \/ InputChange \/ EngineIteration \/ SubmitForceCommand

SpecDI == InitDI /\ [][NextDI]_vars

\* the evaluations of digital inputs in the last engine iteration
DIEvals ==
  { lastIter.log[i] : i \in { k \in DOMAIN lastIter.log :
        isDigitalInputCard(lastIter.log[k].idx) } }

\* the sample the evaluation e had to publish: the forced level or the pin
\* level, inverted if the card inverts
EffectiveSample(e) ==
  LET raw == CASE e.after.source = "FORCED_HIGH" -> TRUE
               [] e.after.source = "FORCED_LOW" -> FALSE
               [] OTHER -> e.after.level
  IN  raw # e.pre.invert

\* C15: a digital input evaluated with its reset condition true comes out
\* with counter 0, logicalState and triggerFlag false and state INHIBITED,
\* whatever its set condition, and its physicalState is the effective
\* (forced, inverted) sample of that evaluation.
ResetInhibitsInput ==
  \A e \in DIEvals :
    e.reset =>
      /\ e.post.currentValue = 0
      /\ ~e.post.logicalState /\ ~e.post.triggerFlag
      /\ e.post.state = "State_DI_Inhibited"
      /\ e.post.physicalState = EffectiveSample(e)

\* a card that has counted an edge is reset while its set condition is true
\* and its forced or inverted sample is high
ResetInhibitsInputReached ==
  \E e \in DIEvals :
    /\ e.reset /\ e.set
    /\ e.pre.currentValue > 0
    /\ e.post.physicalState
    /\ (e.after.source = "FORCED_HIGH" \/ e.pre.invert)
    /\ e.post.state = "State_DI_Inhibited"

\* C16: in an evaluation without reset a digital input's counter does not
\* go down, and in an evaluation with the set condition false it does not
\* go up.
CounterNeverDecreases ==
  \A e \in DIEvals :
    /\ ~e.reset => e.post.currentValue >= e.pre.currentValue
    /\ ~e.set => e.post.currentValue <= e.pre.currentValue

\* C17: a digital input with a debounce time qualifies a change only once
\* the new sample has been seen before (it was already the sample of the
\* previous evaluation), and an evaluation that leaves it in FILTERING
\* changes neither logicalState nor the counter.
DebounceWaitsForStableSample ==
  \A e \in DIEvals :
    ( e.pre.setting1 > 0 /\ e.set /\ ~e.reset ) =>
      /\ e.post.triggerFlag => e.pre.physicalState = e.post.physicalState
      /\ e.post.state = "State_DI_Filtering" =>
           ( e.post.logicalState = e.pre.logicalState
             /\ e.post.currentValue = e.pre.currentValue )

\* C18: the first evaluation of a digital input after its input source has
\* changed (REAL, FORCED_HIGH, FORCED_LOW) sets no triggerFlag and does not
\* count.
ForceChangeMakesNoEdge ==
  \A e \in DIEvals :
    e.after.source # e.before.source =>
      ( ~e.post.triggerFlag /\ e.post.currentValue = e.pre.currentValue )

(***************************************************************************)
(* The debug run modes: the scan engine, the clock and the portal's        *)
(* run-mode, step and breakpoint commands.                                 *)
(***************************************************************************)
InitDebug == Setup(BootConfig, kMinScanIntervalMs, MaxDebugCmds, 0, 0)

SubmitDebugCommand == SubmitCommand(DebugRequests)

NextDebug == Tick \/ EngineIteration \/ SubmitDebugCommand

SpecDebug == InitDebug /\ [][NextDebug]_vars

\* C19: an iteration that steps evaluates exactly one card, the one at the
\* scan position the cursor then moves past; no more cards are evaluated
\* for step_once commands than commands were taken; and once the kernel in
\* RUN_STEP has no command queued and no step pending, it has evaluated one
\* card for every step_once command it took.
StepOncePerCommand ==
  /\ lastIter.kind = "step" =>
       /\ Len(lastIter.log) = 1
       /\ lastIter.log[1].idx =
            scanOrderCardIdFromCursor((ctl.gScanCursor + TOTAL_CARDS - 1) % TOTAL_CARDS)
  /\ lastIter.stepEvals <= lastIter.steps
  /\ ( ctl.gRunMode = "RUN_STEP" /\ gKernelCommandQueue = << >>
       /\ ~ctl.gStepRequested )
     => lastIter.stepEvals = lastIter.steps

\* C20: a scan in RUN_BREAKPOINT evaluates no card whose breakpoint flag is
\* set.
BreakpointHaltsBeforeCard ==
  ( lastIter.kind = "scan" /\ ctl.gRunMode = "RUN_BREAKPOINT" ) =>
    \A k \in DOMAIN lastIter.log : ~ctl.gCardBreakpoint[lastIter.log[k].idx]

NextQueue ==
  \/ Tick
  \/ KernelBegin
  \/ KernelResume
  \/ KernelScanCard
  \/ SubmitCommand(QueueRequests)

SpecQueue ==
  Setup(BootConfig, kMinScanIntervalMs, MaxQueueCmds, 0, 0) /\ [][NextQueue]_vars

\* the control state after the first n commands of q, oldest first
RECURSIVE AppliedInOrder(_, _, _)
AppliedInOrder(C, q, n) ==
  IF n = 0 THEN C ELSE applyKernelCommand(AppliedInOrder(C, q, n - 1), q[n])

\* C22: the step that empties the command queue leaves the control state
\* that applying the queued commands one by one, oldest first, gives; and a
\* step that publishes a new revision finds no command unapplied that was
\* queued when the previous snapshot was published, and publishes the
\* control state those commands left.
CommandsAppliedInOrderByNextRevision ==
  [][ /\ ( gKernelCommandQueue # << >> /\ gKernelCommandQueue' = << >> )
         => ctl' = AppliedInOrder(ctl, gKernelCommandQueue, Len(gKernelCommandQueue))
      /\ gSharedSnapshot'.seq # gSharedSnapshot.seq
         => /\ lastIter.unapplied = 0
            /\ gSharedSnapshot'.mode = ctl'.gRunMode
            /\ gSharedSnapshot'.globalOutputMask = ctl'.gGlobalOutputMask
            /\ gSharedSnapshot'.testModeActive = ctl'.gTestModeActive
            /\ gSharedSnapshot'.inputSource = ctl'.gCardInputSource
            /\ gSharedSnapshot'.outputMaskLocal = ctl'.gCardOutputMask
            /\ gSharedSnapshot'.breakpointEnabled = ctl'.gCardBreakpoint ]_vars

\* two commands that arrived during a scan, after the queue had been
\* emptied, were applied by the next iteration, oldest first, and the
\* revision published after that shows the global mask the second one set
CommandsAppliedInOrderByNextRevisionReached ==
  /\ lastIter.late = 2
  /\ lastIter.kind = "scan" /\ lastIter.unapplied = 0
  /\ kern.pc = "idle"
  /\ gSharedSnapshot.globalOutputMask /\ gSharedSnapshot.seq >= 2

(***************************************************************************)
(* The command queue filling up: the portal submits more commands than     *)
(* the queue holds while the engine task does not run.                     *)
(***************************************************************************)
NextBusy == Tick \/ EngineIteration \/ SubmitCommand(BusyRequests)

SpecBusy ==
  Setup(BootConfig, kMinScanIntervalMs, MaxBusyCmds, 0, 0) /\ [][NextBusy]_vars

\* C23: the command queue never holds more than QUEUE_CAPACITY commands,
\* and a command submitted while it holds that many leaves the queue, the
\* control state and the card table as they were and is answered BUSY.
FullQueueAnswersBusy ==
  [][ /\ Len(gKernelCommandQueue') <= QUEUE_CAPACITY
      /\ ( Len(gKernelCommandQueue) = QUEUE_CAPACITY /\ budget'.cmds < budget.cmds )
         => ( /\ gKernelCommandQueue' = gKernelCommandQueue
              /\ ctl' = ctl /\ logicCards' = logicCards
              /\ budget'.reply = "BUSY" ) ]_vars

\* the scan the kernel would run now if the global mask were g and the
\* local mask of every DO card l
MaskedScan(g, l) ==
  runFullScanCycle(KernelState(ctl), now, FALSE,
                   [ KernelEnv(ctl) EXCEPT
                       !.globalMask = g,
                       !.cardMask = [ i \in CardIds |->
                                        IF isDigitalOutputCard(i) THEN l ELSE @[i] ] ])

\* two scans leave the same runtime: card table, edge memories, cursor
SameRuntime(r1, r2) ==
  /\ r1.cards = r2.cards
  /\ r1.prevSet = r2.prevSet
  /\ r1.prevDISample = r2.prevDISample /\ r1.prevDIPrimed = r2.prevDIPrimed
  /\ r1.cursor = r2.cursor /\ r1.completed = r2.completed

\* C24: from every state the kernel reaches under any sequence of scans
\* and mask commands, a scan leaves every card (mission state,
\* logicalState, physicalState, timers, counters) and the edge memories the
\* same whether the DO cards are masked globally, locally or not at all.
MaskLeavesRuntimeAlone ==
  \A m \in { <<TRUE, FALSE>>, <<FALSE, TRUE>> } :
    SameRuntime(MaskedScan(m[1], m[2]), MaskedScan(FALSE, FALSE))

\* a masked DO card enters its ON phase
MaskLeavesRuntimeAloneReached ==
  \E e \in OutputEvals :
    /\ e.masked
    /\ ~e.pre.physicalState /\ e.post.physicalState
    /\ e.post.state = "State_DO_Active"

\* the configuration fields of a card table: every field but the runtime
\* ones (logicalState .. state)
ConfigFieldsOf(cards) ==
  [ i \in CardIds |->
      [ cards[i] EXCEPT !.logicalState = FALSE, !.physicalState = FALSE,
                        !.triggerFlag = FALSE, !.currentValue = 0,
                        !.startOnMs = 0, !.startOffMs = 0, !.repeatCounter = 0,
                        !.state = "State_None" ] ]

\* C25: a step in which a command is submitted, or in which the kernel
\* takes the queued commands and applies them, leaves the configuration
\* fields of every card of the card table, every stored configuration file
\* and the configuration versions as they were.
CommandsLeaveConfigAlone ==
  [][ gKernelCommandQueue' # gKernelCommandQueue
      => ( /\ ConfigFieldsOf(logicCards') = ConfigFieldsOf(logicCards)
           /\ fs' = fs /\ ver' = ver ) ]_vars

\* a force, a mask, a breakpoint or a run mode set by a command is in
\* effect and the kernel has run since
CommandsLeaveConfigAloneReached ==
  /\ gKernelCommandQueue = << >>
  /\ lastIter.kind # "none"
  /\ \/ ctl.gCardInputSource[DI_START] = "FORCED_HIGH"
     \/ ctl.gCardOutputMask[DO_START] \/ ctl.gGlobalOutputMask
     \/ ctl.gCardBreakpoint[DI_START]
     \/ ctl.gRunMode # "RUN_NORMAL"

(***************************************************************************)
(* The configuration store with a history slot left by an earlier firmware *)
(* whose content no longer validates, commits and restores with failing    *)
(* file operations, and a stalled kernel.                                  *)
(***************************************************************************)
StaleFiles ==
  [ BootFiles(BootConfig) EXCEPT ![kLkgConfigPath] = JsonFile(CandidateBadMode) ]

\* a card array in which DO 4 is set by the state of SIO 10 and SIO 10 by
\* the state of DO 4
CandidateCycle ==
  [ CandidateValid EXCEPT
      ![DO_START + 1].setA_ID = SIO_START,
      ![DO_START + 1].setA_Operator = "Op_LogicalTrue",
      ![SIO_START + 1].setA_ID = DO_START,
      ![SIO_START + 1].setA_Operator = "Op_LogicalTrue" ]

NextStore ==
  \/ Stall
  \/ EngineIteration
  \/ \E array \in CommitCandidates \cup { CandidateCycle }, io \in IoPlans :
       handleHttpCommitConfig(TRUE, array, io)
  \/ \E source \in { "LKG", "SLOT1", "FACTORY" }, io \in IoPlans :
       handleHttpRestoreConfig(source, io)
  \/ CommitApply
  \/ CommitTimeout

SpecStore ==
  SetupFrom(StaleFiles, kDefaultScanIntervalMs, 0, CommitRuns, MaxStalls)
    /\ [][NextStore]_vars

\* C26: a commit or restore request that is answered with a validation
\* failure (VALIDATION_FAILED for a commit, RESTORE_FAILED for a restore
\* whose stored file does not validate) leaves every stored file (the active
\* file, the LKG and the history slots), the running card table and the
\* configuration versions exactly as they were before the request.
RejectedRequestChangesNothing ==
  [][ ( /\ budget'.commits < budget.commits
        /\ portal'.pc = "idle"
        /\ commitLog'.reason \in { "VALIDATION_FAILED", "RESTORE_FAILED" } )
      => ( fs' = fs /\ logicCards' = logicCards /\ ver' = ver ) ]_vars

\* the first request was a restore from the LKG slot, whose file does not
\* validate, and it was refused
RejectedRequestChangesNothingReached ==
  /\ commitLog.n = 1
  /\ ~commitLog.ok
  /\ commitLog.reason = "RESTORE_FAILED"
  /\ budget.commits = CommitRuns - 1
  /\ fs[kLkgConfigPath].kind = "json"
  /\ ~validateConfigCardsArray(fs[kLkgConfigPath].doc)
  /\ fs = StaleFiles


\* the step in which a commit or restore succeeds: the cards are swapped in
CommitSucceeds == portal.pc = "waitPause" /\ portal'.pc = "idle" /\ commitLog'.ok

\* C27: after every successful commit the LKG file is a stored
\* configuration equal to the one that was running right before the commit,
\* /config.json and the card table hold the committed configuration, and
\* slot 1 holds what the LKG file held before the commit, slot 2 what slot 1
\* held, slot 3 what slot 2 held.
CommitRotatesHistory ==
  [][ CommitSucceeds =>
      ( /\ fs'[kLkgConfigPath].kind = "json"
        /\ ConfigFieldsOf(deserializeCardsFromArray(fs'[kLkgConfigPath].doc).cards)
             = ConfigFieldsOf(logicCards)
        /\ fs'[kLkgConfigPath] = portal.filesBefore[kConfigPath]
        /\ fs'[kConfigPath] = JsonFile(serializeCardsToArray(portal.nextCards))
        /\ logicCards' = portal.nextCards
        /\ fs'[kSlot1ConfigPath] = portal.filesBefore[kLkgConfigPath]
        /\ fs'[kSlot2ConfigPath] = portal.filesBefore[kSlot1ConfigPath]
        /\ fs'[kSlot3ConfigPath] = portal.filesBefore[kSlot2ConfigPath] ) ]_vars

\* C28: when the kernel adopts a committed configuration, every card whose
\* id and type are the same in the old and the new card table keeps its
\* edge-detection state (gPrevSetCondition, gPrevDISample, gPrevDIPrimed)
\* and its counters (currentValue, repeatCounter) across the swap.
SwapCarriesRuntimeOver ==
  [][ CommitSucceeds =>
      \A i \in CardIds :
        ( logicCards'[i].id = logicCards[i].id
          /\ logicCards'[i].type = logicCards[i].type )
        => ( /\ gPrevSetCondition'[i] = gPrevSetCondition[i]
             /\ gPrevDISample'[i] = gPrevDISample[i]
             /\ gPrevDIPrimed'[i] = gPrevDIPrimed[i]
             /\ logicCards'[i].currentValue = logicCards[i].currentValue
             /\ logicCards'[i].repeatCounter = logicCards[i].repeatCounter ) ]_vars

\* the cards that the set and reset clauses of card i read: a clause with
\* an always-true or always-false operator reads none
ReferencesOf(cards, i) ==
  { c[1] : c \in { cl \in { << cards[i].setA_ID, cards[i].setA_Operator >>,
                            << cards[i].setB_ID, cards[i].setB_Operator >>,
                            << cards[i].resetA_ID, cards[i].resetA_Operator >>,
                            << cards[i].resetB_ID, cards[i].resetB_Operator >> } :
                   ~isAlwaysOp(cl[2]) } }

RECURSIVE ReferencedWithin(_, _, _)
ReferencedWithin(cards, S, n) ==
  IF n = 0 THEN S
  ELSE ReferencedWithin(cards, S \cup UNION { ReferencesOf(cards, j) : j \in S }, n - 1)

HasReferenceCycle(cards) ==
  \E i \in CardIds : i \in ReferencedWithin(cards, ReferencesOf(cards, i), TOTAL_CARDS)

\* C29: a configuration whose condition references form a cycle is never
\* adopted: it is refused at the commit, so neither the running card table
\* nor the active file ever holds one.
CyclicConfigNeverRuns ==
  /\ ~HasReferenceCycle(logicCards)
  /\ fs[kConfigPath].kind = "json"
       => ~HasReferenceCycle(deserializeCardsFromArray(fs[kConfigPath].doc).cards)

\* C30: the run mode of the kernel is always RUN_NORMAL, RUN_STEP or
\* RUN_BREAKPOINT; a set_run_mode command naming RUN_SLOW is refused and never
\* becomes the run mode, in the control state or in a published snapshot.
RunSlowNeverRuns ==
  /\ ctl.gRunMode \in { "RUN_NORMAL", "RUN_STEP", "RUN_BREAKPOINT" }
  /\ gSharedSnapshot.mode \in { "RUN_NORMAL", "RUN_STEP", "RUN_BREAKPOINT" }

(***************************************************************************)
(* The runtime settings of the portal: POST /api/settings/runtime sets the *)
(* scan interval while the kernel runs.                                    *)
(***************************************************************************)
\* savePortalSettingsToLittleFS: the settings document (the WiFi
\* credentials play no part in the engine and are left out)
savePortalSettingsToLittleFS(files, scanIntervalMs) ==
  writeJsonToPath(files, kPortalSettingsPath, [ scanIntervalMs |-> scanIntervalMs ], "ok")

handleHttpSaveSettingsRuntime(requested) ==
  /\ budget.settings > 0
  /\ IF requested < kMinScanIntervalMs \/ requested > kMaxScanIntervalMs THEN
       /\ budget' = [ budget EXCEPT !.settings = @ - 1, !.reply = "VALIDATION_FAILED" ]
       /\ UNCHANGED << gScanIntervalMs, fs >>
     ELSE
       /\ gScanIntervalMs' = requested
       /\ fs' = savePortalSettingsToLittleFS(fs, requested).files
       /\ budget' = [ budget EXCEPT !.settings = @ - 1, !.reply = "ok" ]
  /\ UNCHANGED << cardVars, ctl, lastScanMs, gKernelPauseRequested, gKernelPaused,
                  gKernelCommandQueue, gSharedSnapshot, envVars, ver, portal, kern,
                  lastIter, reads, commitLog >>

\* the scan intervals a client asks for: two in the allowed range, one
\* below it and one above it
SettingsRequests == { kMinScanIntervalMs, 2 * kMinScanIntervalMs,
                      kMinScanIntervalMs - 1, kMaxScanIntervalMs + 1 }

SlowRequests ==
  { Request("set_run_mode", 0, FALSE, m, FALSE, 0) : m \in { "RUN_SLOW", "RUN_NORMAL" } }

NextSettings ==
  \/ Tick
  \/ EngineIteration
  \/ SubmitCommand(SlowRequests)
  \/ \E requested \in SettingsRequests : handleHttpSaveSettingsRuntime(requested)
  \/ \E array \in { CandidateValid } : handleHttpCommitConfig(TRUE, array, AllOk)
  \/ CommitApply

SpecSettings ==
  Setup(BootConfig, 2 * kMinScanIntervalMs, MaxCmds, MaxCommits, 0) /\ [][NextSettings]_vars

\* the interval runEngineIteration compares the time since the last scan with
ScanIntervalInUse ==
  IF ctl.gRunMode = "RUN_SLOW" THEN SLOW_SCAN_INTERVAL_MS ELSE gScanIntervalMs

\* C31: the scan interval the scheduler uses changes only in the step in
\* which a committed configuration is adopted: no command, run mode change
\* or settings update changes it while a configuration is active.
ScanIntervalFixedBetweenCommits ==
  [][ ScanIntervalInUse' # ScanIntervalInUse => CommitSucceeds ]_vars

(***************************************************************************)
(* The analog input AI 8: input range 0..1000, output range 0..10000,      *)
(* alpha 0.50, currentValue 0 in the stored configuration.  gate "held"    *)
(* gives the card a reset clause that is always true, gate "free" leaves   *)
(* the clauses of the safe defaults.  The analog pin takes a new level     *)
(* each time the clock moves on, after the engine has iterated.            *)
(***************************************************************************)
AICard(gate) ==
  [ initializeCardSafeDefaults(AI_START) EXCEPT
      !.setting1 = 0, !.setting2 = 1000, !.setting3 = 500,
      !.startOnMs = 0, !.startOffMs = 10000, !.currentValue = 0,
      !.resetA_Operator = IF gate = "held" THEN "Op_AlwaysTrue" ELSE "Op_AlwaysFalse" ]

AIConfigs == { [ BootConfig EXCEPT ![AI_START] = AICard(gate) ] : gate \in { "free", "held" } }

\* the raw samples: two inside the input range and one above it
AnalogSamples == { 200, 800, 1200 }

AnalogTick ==
  /\ now < MaxNow
  /\ lastIter.kind # "none" /\ lastIter.at = now
  /\ now' = now + TickMs
  /\ \E raw \in AnalogSamples :
       adcLevel' = [ adcLevel EXCEPT ![AI_Pins[1]] = raw ]
  /\ UNCHANGED << cardVars, ctl, gScanIntervalMs, lastScanMs, gKernelPauseRequested,
                  gKernelPaused, gKernelCommandQueue, gSharedSnapshot, diLevel,
                  storeVars, portal, kern, lastIter, reads, commitLog, budget >>

NextAI == AnalogTick \/ EngineIteration

SpecAI ==
  (\E config \in AIConfigs : Setup(config, kMinScanIntervalMs, 0, 0, 0))
    /\ [][NextAI]_vars

\* the evaluations of AI 8 in the last engine iteration, while the pin still
\* has the level that iteration sampled
AIEvals ==
  IF lastIter.kind # "none" /\ lastIter.at = now
  THEN { lastIter.log[i] : i \in { k \in DOMAIN lastIter.log :
                                     lastIter.log[k].idx = AI_START } }
  ELSE {}

\* the pipeline of the AI contract: clamp, linear map, EMA (alpha in
\* thousandths)
ClampThenMapThenEma(raw, card) ==
  LET clamped == IF raw < card.setting1 THEN card.setting1
                 ELSE IF raw > card.setting2 THEN card.setting2 ELSE raw
      mapped == card.startOnMs
                  + ((clamped - card.setting1) * (card.startOffMs - card.startOnMs))
                      \div (card.setting2 - card.setting1)
  IN  ((card.setting3 * mapped) + ((1000 - card.setting3) * card.currentValue)) \div 1000

\* the worked example as steps: <<previous currentValue, raw sample, new
\* currentValue>>
AnalogVector == { <<0, 200, 1000>>, <<1000, 200, 1500>>, <<1500, 800, 4750>>,
                  <<4750, 200, 3375>> }

AnalogVectorAsWritten == { <<0, 200, 1000>>, <<1000, 200, 1500>>, <<1500, 800, 4750>>,
                           <<4750, 200, 2875>> }

\* C32 (amended): every evaluation of the AI card leaves in currentValue the
\* result of clamp, then linear map, then EMA of the raw sample against the
\* previous currentValue, whatever the card's set and reset clauses; with
\* input range 0..1000, output range 0..10000 and alpha 0.50, from 0 the
\* samples 200, 200, 800, 200 give 1000, 1500, 4750, 3375.
AnalogPipelineGivesVector ==
  \A e \in AIEvals :
    /\ e.post.currentValue = ClampThenMapThenEma(adcLevel[AI_Pins[1]], e.pre)
    /\ \A v \in AnalogVector :
         ( e.pre.currentValue = v[1] /\ adcLevel[AI_Pins[1]] = v[2] )
           => e.post.currentValue = v[3]

\* the fourth scan of the worked example has been made, by a card whose
\* reset clause is always true
AnalogPipelineGivesVectorReached ==
  /\ now = BootMs + 4 * TickMs
  /\ logicCards[AI_START].resetA_Operator = "Op_AlwaysTrue"
  /\ \E e \in AIEvals :
       /\ e.pre.currentValue = 4750
       /\ adcLevel[AI_Pins[1]] = 200
       /\ e.post.currentValue = 3375

\* C32: as the sentence has it, the fourth value of the worked example
\* being 2875.
AnalogPipelineGivesVectorAsWritten ==
  \A e \in AIEvals :
    /\ e.post.currentValue = ClampThenMapThenEma(adcLevel[AI_Pins[1]], e.pre)
    /\ \A v \in AnalogVectorAsWritten :
         ( e.pre.currentValue = v[1] /\ adcLevel[AI_Pins[1]] = v[2] )
           => e.post.currentValue = v[3]

(***************************************************************************)
(* Liveness of the digital input DI 0 in Rising mode, set always true and  *)
(* reset always false, without and with a debounce time.  The clock runs   *)
(* (weak fairness of Tick), and the engine task loops for ever with a      *)
(* vTaskDelay of 1 ms between iterations, so it iterates at every time of  *)
(* the clock.                                                              *)
(***************************************************************************)
NextDILive == Tick \/ InputChange \/ EngineIteration

EngineKeepsUp == lastIter.kind # "none" /\ lastIter.at = now

SpecDILive ==
  /\ \E debounce \in { 0, DebounceMs } :
       Setup(DIConfig("Mode_DI_Rising", debounce, FALSE, "none", 0),
             kMinScanIntervalMs, 0, 0, 0)
  /\ [][NextDILive]_vars
  /\ WF_vars(Tick)
  /\ []<>EngineKeepsUp

\* C33: when DI 0 (Rising, set true, reset false) has been sampled low, its
\* pin goes high while the engine has scans ahead, and from then on the pin
\* stays high, the edge is eventually qualified: the counter goes up by one
\* and logicalState is the sample.
StableEdgeIsQualified ==
  \A c \in 0 .. MaxEdges :
    [] ( ( /\ gPrevDIPrimed[DI_START] /\ ~gPrevDISample[DI_START]
           /\ now < MaxNow
           /\ logicCards[DI_START].currentValue = c
           /\ [] diLevel[DI_Pins[1]] )
         => <> ( /\ logicCards[DI_START].currentValue = c + 1
                 /\ logicCards[DI_START].logicalState ) )

(***************************************************************************)
(* The full scan cycle under the debug run modes.                          *)
(***************************************************************************)
\* C34: every full scan cycle that completes evaluates each of the 14 cards
\* exactly once, in the fixed scan order, starting from the first card of
\* that order; cycles that follow stepping in RUN_STEP or a pause at a
\* breakpoint included.
FullScanStartsAtFirstCard ==
  ( lastIter.kind = "scan" /\ lastIter.completed ) =>
    /\ Len(lastIter.log) = TOTAL_CARDS
    /\ \A k \in DOMAIN lastIter.log :
         lastIter.log[k].idx = scanOrderCardIdFromCursor(k - 1)

(***************************************************************************)
(* The snapshot against a commit that overlaps a scan.  The spin lock      *)
(* gSnapshotMux guards gSharedSnapshot only: the memcpy from logicCards in *)
(* updateSharedRuntimeSnapshot, called by the portal task at the end of    *)
(* applyCardsAsActiveConfig, reads the card table while the engine task,   *)
(* when it is part-way through a scan, stores into the record of the card  *)
(* it is evaluating.                                                       *)
(***************************************************************************)
\* a committed card array whose timers start on a set condition that is
\* always true
CandidateTear ==
  serializeCardsToArray(
    [ i \in CardIds |->
        IF i = DO_START \/ i = SIO_START
        THEN [ BootConfig[i] EXCEPT !.setA_Operator = "Op_AlwaysTrue" ]
        ELSE BootConfig[i] ])

\* the record of a DO or SIO card as processDOCard leaves it before its
\* last two stores, the cycle counter and physicalState
processDOCardBeforeLastStores(pre, post) ==
  [ post EXCEPT !.physicalState = pre.physicalState,
                !.currentValue = pre.currentValue ]

\* what a copy of a record can hold that is taken while the record is
\* evaluated from pre to post
RecordsCopiedDuringEvaluation(pre, post) ==
  { pre, processDOCardBeforeLastStores(pre, post), post }

\* applyCardsAsActiveConfig while the engine task evaluates the DO or SIO
\* card c at the scan cursor: the memcpy of the new cards and the memsets,
\* then the card's evaluation, which leaves K, with the snapshot update of
\* the portal task copying the record during it
CommitSwapDuringEvaluationWith(c, K, C) ==
  /\ ~K.bpPaused
  /\ logicCards' = K.cards
  /\ gPrevSetCondition' = K.prevSet
  /\ gPrevDISample' = K.prevDISample
  /\ gPrevDIPrimed' = K.prevDIPrimed
  /\ pinOut' = K.pins
  /\ ctl' = C
  /\ kern' = [ kern EXCEPT !.i = @ + 1, !.log = K.log, !.hist = K.hist ]
  /\ \E copied \in RecordsCopiedDuringEvaluation(portal.nextCards[c], K.cards[c]) :
       gSharedSnapshot' =
         updateSharedRuntimeSnapshot(gSharedSnapshot, now, FALSE,
                                     [ K.cards EXCEPT ![c] = copied ], C)

CommitSwapDuringEvaluationAt(c, K) ==
  CommitSwapDuringEvaluationWith(
    c, K, [ ctl EXCEPT !.gScanCursor = K.cursor, !.gBreakpointPaused = K.bpPaused ])

CommitSwapDuringEvaluation ==
  /\ portal.pc = "apply"
  /\ kern.pc = "scan"
  /\ kern.i + 1 < TOTAL_CARDS
  /\ isDigitalOutputCard(scanOrderCardIdFromCursor(ctl.gScanCursor))
       \/ isSoftIOCard(scanOrderCardIdFromCursor(ctl.gScanCursor))
  /\ CommitSwapDuringEvaluationAt(
       scanOrderCardIdFromCursor(ctl.gScanCursor),
       processOneScanOrderedCard(
         [ KernelState(ctl) EXCEPT
             !.cards = portal.nextCards,
             !.prevSet = [ i \in CardIds |-> FALSE ],
             !.prevDISample = [ i \in CardIds |-> FALSE ],
             !.prevDIPrimed = [ i \in CardIds |-> FALSE ],
             !.log = kern.log, !.hist = kern.hist ],
         kern.nowMs, kern.honorBreakpoints, KernelEnv(ctl)))
  /\ gKernelPauseRequested' = FALSE
  /\ ver' = [ ver EXCEPT !.gConfigVersionCounter = U32Add(@, 1),
                         !.gActiveVersion =
                            formatVersion(U32Add(ver.gConfigVersionCounter, 1)) ]
  /\ commitLog' = Outcome(TRUE, "", portal.filesBefore, fs, portal.cardsBefore,
                          portal.cardsBefore)
  /\ portal' = [ pc |-> "idle" ]
  /\ UNCHANGED << gScanIntervalMs, lastScanMs, gKernelPaused, gKernelCommandQueue,
                  envVars, fs, lastIter, reads, budget >>

NextTear ==
  \/ Stall
  \/ KernelBegin
  \/ KernelResume
  \/ KernelScanCard
  \/ \E array \in { CandidateTear } : handleHttpCommitConfig(TRUE, array, AllOk)
  \/ PauseWaitExit
  \/ PauseReturn
  \/ CommitSwap
  \/ CommitSwapDuringEvaluation

SpecTear ==
  /\ Setup(BootConfig, kDefaultScanIntervalMs, 0, CommitRuns, MaxStalls)
  /\ [][NextTear]_vars

\* C35: every snapshot that is published holds the card table as it stands
\* at one instant between card evaluations or after a completed
\* configuration apply: the step that changes the published snapshot leaves
\* in it the card table as the step leaves it or, in an apply, the card
\* table the apply installs.
SnapshotIsTableAtOneInstant ==
  [][ gSharedSnapshot' # gSharedSnapshot =>
        \/ gSharedSnapshot'.cards = logicCards'
        \/ portal.pc = "apply" /\ gSharedSnapshot'.cards = portal.nextCards ]_vars

(***************************************************************************)
(* The scan schedule across the wrap-around of millis().  The run begins   *)
(* WrapLeadMs before the clock wraps, with the inputs low and the cards at *)
(* rest as after boot, and the last scan start one or two ticks back.      *)
(***************************************************************************)
\* millis() moves on by TickMs, through the wrap-around, once the engine
\* task has iterated at the current time
WrapTick ==
  /\ now >= Wrap32 - WrapLeadMs \/ now < MaxNow
  /\ lastIter.kind # "none" /\ lastIter.at = now
  /\ now' = U32Add(now, TickMs)
  /\ UNCHANGED << cardVars, ctl, gScanIntervalMs, lastScanMs, gKernelPauseRequested,
                  gKernelPaused, gKernelCommandQueue, gSharedSnapshot, diLevel,
                  adcLevel, storeVars, portal, kern, lastIter, reads, commitLog,
                  budget >>

NextWrap == WrapTick \/ InputChange \/ EngineIteration

SpecWrap ==
  /\ \E back \in { TickMs, 2 * TickMs } :
       SetupAt(BootFiles(BootConfig), 2 * kMinScanIntervalMs, 0, 0, 0,
               Wrap32 - WrapLeadMs, Wrap32 - WrapLeadMs - back)
  /\ [][NextWrap]_vars

\* C36: an engine iteration executes a scan only if now - lastScanStart >=
\* scanInterval and executes at most one scan; the scan advances
\* lastScanStart by exactly scanInterval; and lastScanStart moves in no other
\* way than by scanInterval, so that the scan starts stay on the absolute
\* schedule, across the wrap-around of the millisecond clock too.
ScanKeepsAbsoluteSchedule ==
  [][ /\ ( lastIter' # lastIter /\ lastIter'.kind = "scan" ) =>
           /\ U32Sub(now, lastScanMs) >= ScanIntervalInUse
           /\ lastScanMs' = U32Add(lastScanMs, ScanIntervalInUse)
           /\ Len(lastIter'.log) <= TOTAL_CARDS
           /\ lastIter'.seqAfter = U32Add(lastIter'.seqBefore, 1)
      /\ lastScanMs' # lastScanMs =>
           lastScanMs' = U32Add(lastScanMs, ScanIntervalInUse) ]_vars

(***************************************************************************)
(* The output of a timer card against its mission state, under SpecCards.  *)
(***************************************************************************)
\* C37: after every evaluation of a DO or SIO card, physicalState is true
\* if and only if the card's state is State_DO_Active.
PhysicalIffActive ==
  \A e \in TimerEvals :
    e.post.physicalState <=> e.post.state = "State_DO_Active"

\* an evaluation in which the on delay ends: the card goes from OnDelay with
\* the output off to Active with the output on
PhysicalIffActiveReached ==
  \E e \in TimerEvals :
    /\ e.pre.state = "State_DO_OnDelay" /\ ~e.pre.physicalState
    /\ e.post.state = "State_DO_Active" /\ e.post.physicalState

(***************************************************************************)
(* The ids and types of the running card table: commits of card arrays     *)
(* whose "id" and "type" members are not those of their position.          *)
(***************************************************************************)
\* the valid card array with the ids of its first two cards exchanged
CandidateSwappedIds ==
  [ CandidateValid EXCEPT ![1].id = DI_START + 1, ![2].id = DI_START ]

\* the valid card array with its first DO card typed as a SoftIO card
CandidateOtherType ==
  [ CandidateValid EXCEPT ![DO_START + 1].type = "SoftIO" ]

NextIds ==
  \/ Tick
  \/ InputChange
  \/ EngineIteration
  \/ \E array \in { CandidateValid, CandidateSwappedIds, CandidateOtherType } :
       handleHttpCommitConfig(TRUE, array, AllOk)
  \/ CommitApply

SpecIds ==
  /\ Setup(BootConfig, kMinScanIntervalMs, 0, MaxCommits, 0)
  /\ [][NextIds]_vars

\* C38: after boot and after every successful commit, the card at index i
\* of the running card table has id = i and the card type of the family
\* that owns index i.
CardAtIndexHasItsIdAndType ==
  \A i \in CardIds :
    /\ logicCards[i].id = i
    /\ logicCards[i].type = initializeCardSafeDefaults(i).type

(***************************************************************************)
(* The published revision against the published runtime values, under      *)
(* Spec.                                                                   *)
(***************************************************************************)
\* the runtime fields of a card table (logicalState .. state)
RuntimeFieldsOf(cards) ==
  [ i \in CardIds |->
      [ logicalState |-> cards[i].logicalState,
        physicalState |-> cards[i].physicalState,
        triggerFlag |-> cards[i].triggerFlag,
        currentValue |-> cards[i].currentValue,
        startOnMs |-> cards[i].startOnMs,
        startOffMs |-> cards[i].startOffMs,
        repeatCounter |-> cards[i].repeatCounter,
        state |-> cards[i].state ] ]

\* C39: two published snapshots that carry the same revision hold the same
\* card runtime records: a step that leaves the published revision as it
\* is leaves the runtime fields of every published card as they are.
SameRevisionSameRuntime ==
  [][ gSharedSnapshot'.seq = gSharedSnapshot.seq =>
        RuntimeFieldsOf(gSharedSnapshot'.cards)
          = RuntimeFieldsOf(gSharedSnapshot.cards) ]_vars

(***************************************************************************)
(* The breakpoint pause against the run mode, under SpecDebug.             *)
(***************************************************************************)
\* C40: gBreakpointPaused is true only while the run mode is
\* RUN_BREAKPOINT, in the kernel and in the published snapshot, and a scan
\* is cut short only in RUN_BREAKPOINT.
PauseOnlyInBreakpointMode ==
  /\ ctl.gBreakpointPaused => ctl.gRunMode = "RUN_BREAKPOINT"
  /\ gSharedSnapshot.breakpointPaused => gSharedSnapshot.mode = "RUN_BREAKPOINT"
  /\ ( lastIter.kind = "scan" /\ ~lastIter.completed )
       => ctl.gRunMode = "RUN_BREAKPOINT"

\* the kernel in RUN_STEP after a scan that a breakpoint had cut short: no
\* card has been evaluated for a step, so the cursor stands behind the
\* breakpoint's card because a scan paused there, and the pause is cleared
PauseOnlyInBreakpointModeReached ==
  /\ ctl.gRunMode = "RUN_STEP" /\ ~ctl.gBreakpointPaused
  /\ lastIter.kind = "stepidle" /\ lastIter.stepEvals = 0
  /\ ctl.gCardBreakpoint[DI_START + 1] /\ ctl.gScanCursor = 2

=============================================================================
